---- MODULE Spec2Model ----
(***************************************************************************)
(* Lumine: HTTP 402 pay-per-request protocol.                              *)
(*                                                                         *)
(*   PaymentClient      packages/lumine-client/src/index.ts                *)
(*   PaymentGateway     packages/lumine-gateway (requirePayment)           *)
(*   BridgeDepositFlow  usdcx-bridge deposit script (main)                 *)
(*                                                                         *)
(* Each component has its own specification; the variables of the other    *)
(* components stay at their initial values in it.                          *)
(***************************************************************************)
EXTENDS Integers, Sequences, FiniteSets, TLC

VARIABLES
    \* ---- PaymentClient: one call of createLumineClient(config).get(url, options)
    cServer,        \* what answers the gated URL: "gateway" (requirePayment + handler) or "any"
    cPc,            \* position of get(): idle, first, demo, json, retry, returned, rejected
    cUrl,           \* the caller's url
    cOptions,       \* the caller's options
    cRequests,      \* every fetch issued so far, in order
    cResponse,      \* <<response>> once the first fetch has resolved
    cDemoResponse,  \* <<demoResponse>> once the settlement trigger has resolved
    cRetryResponse, \* <<retryResponse>> once the retry has resolved
    cResult,        \* <<outcome of get()>> once it has settled
    \* ---- PaymentGateway: requirePayment(config) and the handler it returns
    gwEnv,          \* process.env.AGENTPAY_SERVER_WALLET
    gwConfig,       \* <<config, environment>> requirePayment was called with
    gwTerms,        \* <<closure {amount, recipient, network}>> once requirePayment was called
    gwLog,          \* every invocation of the handler so far: request, response object, effect
    \* ---- BridgeDepositFlow: one run of main()
    bPc,            \* position of main()
    bKey,           \* config.PRIVATE_KEY
    bRecipient,     \* config.STACKS_RECIPIENT
    bRemoteRecipient, \* const remoteRecipient, once encodeStacksAddress has returned it
    bEthBalance,    \* <<ethBalance>> once getBalance has resolved
    bUsdcBalance,   \* <<usdcBalance>> once balanceOf has been read
    bTxs,           \* every transaction submitted with writeContract, in order
    bApproval,      \* confirmation state of the approve transaction
    bDeposit,       \* confirmation state of the depositToRemote transaction
    bError,         \* <<error passed to console.error>> once main() has rejected
    bExit,          \* <<exit code>> once the process has ended
    \* ---- SignerService: one invocation of stacks-signer.js
    sPc,            \* position of main()
    sArgs,          \* process.argv.slice(2)
    sPrivateKey,    \* <<privateKey>> once main() has read it from the arguments
    sSender,        \* <<senderAddress>> once it has been derived from the key
    sBuilt,         \* the txOptions of every makeContractCall so far
    sBroadcasts,    \* every transaction handed to broadcastTransaction so far
    sResponse,      \* <<broadcastResponse>> once broadcastTransaction has resolved
    sStdout,        \* the lines written to standard output, each a JSON object
    sUncaught,      \* <<error>> once an error has left main() uncaught
    sExit,          \* <<exit code>> once the process has ended
    \* ---- AddressCodec: the functions of helper.js applied to one address
    kAddress,       \* the Stacks address given (<<>> when bytes are given instead)
    kDecoded,       \* <<result of c32Decode(address.slice(2))>> once computed
    kEncoded,       \* <<result of encodeRecipient(address)>> once computed
    kOther,         \* <<a second address>> once one has been encoded as well
    kEncodedOther,  \* <<result of encodeRecipient(second address)>>
    kRecipient32,   \* <<result of encodeStacksAddress(address)>> once computed
    kBytes,         \* <<the bytes given to bytes32FromBytes>> (<<>> when an address is given)
    kPadded,        \* <<result of bytes32FromBytes(bytes)>> once computed
    kRepadded,      \* <<result of bytes32FromBytes on the bytes of that result>>
    \* ---- payment-verifier: one call of verify-transfer-params
    vCall,          \* the arguments of the call
    vResult,        \* <<response>> once the call has been evaluated
    \* ---- Demo page: the DemoRun component
    dStatus,        \* status: idle, running, complete
    dLogs,          \* logs
    dTxid,          \* txid
    dPending,       \* calls of executeDemoRun that have not settled yet
    dResult,        \* <<what the last settled executeDemoRun resolved or rejected with>>
    dTimers,        \* per execution, the timeouts scheduled and not fired yet, in order
    dResets,        \* calls of resetDemo that have not settled yet
    dClicks         \* clicks on the two buttons so far

clientVars == <<cServer, cPc, cUrl, cOptions, cRequests, cResponse, cDemoResponse,
                cRetryResponse, cResult>>
gatewayVars == <<gwEnv, gwConfig, gwTerms, gwLog>>
bridgeVars == <<bPc, bKey, bRecipient, bRemoteRecipient, bEthBalance, bUsdcBalance, bTxs, bApproval, bDeposit,
               bError, bExit>>
signerVars == <<sPc, sArgs, sPrivateKey, sSender, sBuilt, sBroadcasts, sResponse, sStdout,
               sUncaught, sExit>>
codecVars == <<kAddress, kDecoded, kEncoded, kOther, kEncodedOther, kRecipient32, kBytes, kPadded,
              kRepadded>>
verifierVars == <<vCall, vResult>>
demoVars == <<dStatus, dLogs, dTxid, dPending, dResult, dTimers, dResets, dClicks>>
vars == <<clientVars, gatewayVars, bridgeVars, signerVars, codecVars, verifierVars, demoVars>>

(***************************************************************************)
(* Values                                                                  *)
(***************************************************************************)

\* A JavaScript value that is undefined, a string, or an array of strings
\* (the type of one entry of req.headers).
Undefined == [type |-> "undefined", val |-> <<>>]
Str(s) == [type |-> "string", val |-> <<s>>]
Arr(a) == [type |-> "array", val |-> a]

\* JavaScript truthiness of such a value: undefined and "" are falsy, every
\* other string and every array (the empty one included) is truthy.
Truthy(v) ==
    CASE v.type = "undefined" -> FALSE
      [] v.type = "string" -> v.val[1] # ""
      [] v.type = "array" -> TRUE

\* a ?? b / destructuring default: b only when a is undefined
OrDefault(a, b) == IF a.type = "undefined" THEN b ELSE a

\* a || b
OrElse(a, b) == IF Truthy(a) THEN a ELSE b

(***************************************************************************)
(* PaymentGateway: requirePayment(config) and its handler                  *)
(***************************************************************************)

\* PaymentConfig values tried: amount is required, recipient and network optional.
Configs ==
    [amount : {Str("100000"), Str("250000")},
     recipient : {Undefined, Str("ST3Q6YCK0E2SDAA1KS7X546NY02F12D88RZHAH2P3")},
     network : {Undefined, Str("stacks-mainnet")}]

\* process.env.AGENTPAY_SERVER_WALLET: unset, set to "", set to an address.
EnvValues == {Undefined, Str(""), Str("ST1PQHQKV0RJXZFY1DGX8MNSNYVE3VGZJSRTPGZGM")}

\* Values of req.headers["x-payment-txid"]: string | string[] | undefined.
TxIdHeaders ==
    {Undefined, Str(""), Str("0xabc"), Str("not-a-txid"), Arr(<<>>), Arr(<<"0xabc", "0xdef">>)}

Requests == [headers : [x_payment_txid : TxIdHeaders]]

\* Response objects: which of setHeader / set the object provides.
\* GatewayResponse declares setHeader as required and set as optional; the
\* handler itself also copes with objects that lack setHeader.
ResponseObjects == [setHeader : BOOLEAN, set : BOOLEAN]

\* The closure built by requirePayment: the destructured config with defaults.
requirePayment(config, env) ==
    [amount |-> config.amount,
     recipient |-> OrDefault(config.recipient, OrElse(env, Str(""))),
     network |-> OrDefault(config.network, Str("stacks-testnet"))]

\* Mutant: the proof is checked against the one known transaction id.
paymentProofValidated(req) ==
    IF req.headers.x_payment_txid = Str("0xabc") THEN req.headers.x_payment_txid ELSE Undefined

\* Mutant: once a request has been forwarded, later requests count as paid.
paymentProofSession(req) ==
    IF \E i \in DOMAIN gwLog : gwLog[i].effect.next = 1
    THEN Str("session")
    ELSE req.headers.x_payment_txid

\* const paymentProof = req.headers["x-payment-txid"]
paymentProof(req) == req.headers.x_payment_txid

\* const setHeader = res.setHeader?.bind(res) || res.set?.bind(res)
setHeader(res) ==
    IF res.setHeader THEN "setHeader" ELSE IF res.set THEN "set" ELSE "undefined"

\* Mutant: the network header is forgotten.
PaymentHeadersNoNetwork(terms) ==
    {<<"X-Payment-Amount", terms.amount>>,
     <<"X-Payment-Recipient", terms.recipient>>}

\* The three setHeader calls of the 402 branch.
PaymentHeaders(terms) ==
    {<<"X-Payment-Amount", terms.amount>>,
     <<"X-Payment-Recipient", terms.recipient>>,
     <<"X-Payment-Network", terms.network>>}

\* Mutant: the body names the default network instead of the configured one.
PaymentBodyDefaultNetwork(terms) ==
    [error |-> "Payment Required",
     message |-> "This endpoint requires payment to access",
     payment |-> [amount |-> terms.amount,
                  recipient |-> terms.recipient,
                  network |-> Str("stacks-testnet"),
                  currency |-> "USDCx"]]

\* The object passed to res.status(402).json(...).
PaymentBody(terms) ==
    [error |-> "Payment Required",
     message |-> "This endpoint requires payment to access",
     payment |-> [amount |-> terms.amount,
                  recipient |-> terms.recipient,
                  network |-> terms.network,
                  currency |-> "USDCx"]]

\* What one invocation of the handler does: how often it calls next, and the
\* headers, status and body it writes to res.
handler(req, res, terms) ==
    IF Truthy(paymentProof(req))
    THEN [next |-> 1, headers |-> {}, status |-> <<>>, body |-> <<>>]
    ELSE [next |-> 0,
          headers |-> IF setHeader(res) # "undefined" THEN PaymentHeaders(terms) ELSE {},
          status |-> <<402>>,
          body |-> <<PaymentBody(terms)>>]

\* Handler invocations modelled per gateway.
MaxRequests == 2

GatewayIdle ==
    /\ gwEnv = Undefined
    /\ gwConfig = <<>>
    /\ gwTerms = <<>>
    /\ gwLog = <<>>

\* requirePayment(config) is called once per gated endpoint definition; the
\* default of recipient reads the environment at that moment.
gw_requirePayment ==
    /\ gwTerms = <<>>
    /\ \E config \in Configs :
          /\ gwConfig' = <<[config |-> config, env |-> gwEnv]>>
          /\ gwTerms' = <<requirePayment(config, gwEnv)>>
    /\ UNCHANGED <<gwEnv, gwLog>>
    /\ UNCHANGED <<clientVars, bridgeVars, signerVars, codecVars, verifierVars, demoVars>>

\* One request reaches the middleware.
gw_handler ==
    /\ gwTerms # <<>>
    /\ Len(gwLog) < MaxRequests
    /\ \E req \in Requests, res \in ResponseObjects :
          gwLog' = Append(gwLog, [req |-> req, res |-> res,
                                  effect |-> handler(req, res, gwTerms[1])])
    /\ UNCHANGED <<gwEnv, gwConfig, gwTerms>>
    /\ UNCHANGED <<clientVars, bridgeVars, signerVars, codecVars, verifierVars, demoVars>>

\* The process environment is mutable; it may change between requests.
gw_setEnv ==
    /\ \E v \in EnvValues : v # gwEnv /\ gwEnv' = v
    /\ UNCHANGED <<gwConfig, gwTerms, gwLog>>
    /\ UNCHANGED <<clientVars, bridgeVars, signerVars, codecVars, verifierVars, demoVars>>

(***************************************************************************)
(* PaymentClient: createLumineClient(config).get(url, options)             *)
(***************************************************************************)

\* config.apiBaseUrl
apiBaseUrl == "http://localhost:8000"

\* URLs are kept as base and path, so that `${apiBaseUrl}/demo/run` can be built.
Urls ==
    {[base |-> "https://api.example.com", path |-> "/paid-endpoint"],
     [base |-> "http://localhost:3000", path |-> "/api/premium"]}

\* The caller's options (RequestInit): a method and a proof header, each
\* possibly absent. Absent options are the record with both undefined.
Options ==
    [method : {Undefined, Str("GET"), Str("POST")},
     headers : [x_payment_txid : {Undefined, Str(""), Str("0xabc")},
                content_type : {Undefined}]]

\* Statuses an arbitrary gated resource may answer with.
GatedStatuses == {200, 204, 401, 402, 404, 500}

\* Answers of the settlement trigger: a status, and whether the body is JSON.
TriggerResponses == [status : {200, 201, 299, 300, 402, 423, 500}, json : BOOLEAN]

\* Mutant: the caller's headers are not passed on.
GatedRequestWithoutHeaders(url, options) ==
    [url |-> url, method |-> Str("GET"),
     headers |-> [x_payment_txid |-> Undefined, content_type |-> Undefined]]

\* fetch(url, { ...options, method: "GET" })
GatedRequest(url, options) ==
    [url |-> url, method |-> Str("GET"), headers |-> options.headers]

\* fetch(`${apiBaseUrl}/demo/run`, { method: "POST", headers: {...} })
TriggerRequest ==
    [url |-> [base |-> apiBaseUrl, path |-> "/demo/run"],
     method |-> Str("POST"),
     headers |-> [x_payment_txid |-> Undefined, content_type |-> Str("application/json")]]

\* Mutant: every client error is taken as a payment requirement.
needsPaymentAny4xx(response) == response.status >= 400 /\ response.status <= 499

\* response.status !== 402, negated
needsPayment(response) == response.status = 402

\* Mutant: everything below 400 counts as success.
okBelow400(response) == response.status < 400

\* Response.ok: the status is in 200..299
ok(response) == response.status >= 200 /\ response.status <= 299

\* The request as the middleware sees it (Node lower-cases header names).
ToGatewayRequest(request) ==
    [headers |-> [x_payment_txid |-> request.headers.x_payment_txid]]

\* An Express response object has both setHeader and set.
ExpressResponse == [setHeader |-> TRUE, set |-> TRUE]

\* The endpoint of the gateway's usage example:
\* app.get("/api/premium", requirePayment({ amount: "100000" }), (req, res) => res.json(...))
ExampleConfig == [amount |-> Str("100000"), recipient |-> Undefined, network |-> Undefined]

\* The HTTP response that results from one pass through the middleware: the
\* route handler's 200 when next was called, else what the middleware wrote.
HttpResponse(effect) ==
    IF effect.next = 1
    THEN [status |-> 200, by |-> "handler", headers |-> {}]
    ELSE [status |-> effect.status[1], by |-> "gateway", headers |-> effect.headers]

\* What the gated URL may answer to a request.
GatedResponses(request) ==
    IF cServer = "gateway"
    THEN {HttpResponse(handler(ToGatewayRequest(request), ExpressResponse, gwTerms[1]))}
    ELSE [status : GatedStatuses, by : {"server"}, headers : {{}}]

\* The gateway's record of a request from the client.
Served(request) ==
    IF cServer = "gateway"
    THEN Append(gwLog, [req |-> ToGatewayRequest(request), res |-> ExpressResponse,
                        effect |-> handler(ToGatewayRequest(request), ExpressResponse,
                                           gwTerms[1])])
    ELSE gwLog

Return(response) == [kind |-> "return", response |-> <<response>>, error |-> ""]
Throw(message) == [kind |-> "throw", response |-> <<>>, error |-> message]

ClientIdle ==
    /\ cServer = "any"
    /\ cPc = "idle"
    /\ cUrl = <<>>
    /\ cOptions = <<>>
    /\ cRequests = <<>>
    /\ cResponse = <<>>
    /\ cDemoResponse = <<>>
    /\ cRetryResponse = <<>>
    /\ cResult = <<>>

\* The caller invokes get(url, options): the initial request is issued.
get_fetch ==
    /\ cPc = "idle"
    /\ \E url \in Urls, options \in Options :
          /\ cUrl' = <<url>>
          /\ cOptions' = <<options>>
          /\ cRequests' = <<GatedRequest(url, options)>>
    /\ cPc' = "first"
    /\ UNCHANGED <<cServer, cResponse, cDemoResponse, cRetryResponse, cResult>>
    /\ UNCHANGED <<gatewayVars, bridgeVars, signerVars, codecVars, verifierVars, demoVars>>

\* Mutant: on a 402 the settlement trigger and the retry are sent together.
get_responseSendsBoth ==
    /\ cPc = "first"
    /\ \E response \in GatedResponses(cRequests[1]) :
          /\ cResponse' = <<response>>
          /\ IF ~needsPayment(response)
             THEN /\ cPc' = "returned"
                  /\ cResult' = <<Return(response)>>
                  /\ UNCHANGED cRequests
             ELSE /\ cPc' = "retry"
                  /\ cRequests' = cRequests \o <<TriggerRequest,
                                                  GatedRequest(cUrl[1], cOptions[1])>>
                  /\ UNCHANGED cResult
    /\ gwLog' = Served(cRequests[1])
    /\ UNCHANGED <<cServer, cUrl, cOptions, cDemoResponse, cRetryResponse>>
    /\ UNCHANGED <<gwEnv, gwConfig, gwTerms, bridgeVars, signerVars, codecVars, verifierVars, demoVars>>

\* The initial request resolves: anything but a 402 is returned as is; on a
\* 402 the payment headers are logged and the settlement trigger is called.
get_response ==
    /\ cPc = "first"
    /\ \E response \in GatedResponses(cRequests[1]) :
          /\ cResponse' = <<response>>
          /\ IF ~needsPayment(response)
             THEN /\ cPc' = "returned"
                  /\ cResult' = <<Return(response)>>
                  /\ UNCHANGED cRequests
             ELSE /\ cPc' = "demo"
                  /\ cRequests' = Append(cRequests, TriggerRequest)
                  /\ UNCHANGED cResult
    /\ gwLog' = Served(cRequests[1])
    /\ UNCHANGED <<cServer, cUrl, cOptions, cDemoResponse, cRetryResponse>>
    /\ UNCHANGED <<gwEnv, gwConfig, gwTerms, bridgeVars, signerVars, codecVars, verifierVars, demoVars>>

\* Mutant: when the settlement trigger fails, the first response is returned.
get_demoResponseReturnsFirst ==
    /\ cPc = "demo"
    /\ \E demoResponse \in TriggerResponses :
          /\ cDemoResponse' = <<demoResponse>>
          /\ IF ~ok(demoResponse)
             THEN /\ cPc' = "returned"
                  /\ cResult' = <<Return(cResponse[1])>>
             ELSE /\ cPc' = "json"
                  /\ UNCHANGED cResult
    /\ UNCHANGED <<cServer, cUrl, cOptions, cRequests, cResponse, cRetryResponse>>
    /\ UNCHANGED <<gatewayVars, bridgeVars, signerVars, codecVars, verifierVars, demoVars>>

\* The settlement trigger resolves: a status outside 2xx throws, otherwise
\* the body is read with demoResponse.json().
get_demoResponse ==
    /\ cPc = "demo"
    /\ \E demoResponse \in TriggerResponses :
          /\ cDemoResponse' = <<demoResponse>>
          /\ IF ~ok(demoResponse)
             THEN /\ cPc' = "rejected"
                  /\ cResult' = <<Throw("Payment failed")>>
             ELSE /\ cPc' = "json"
                  /\ UNCHANGED cResult
    /\ UNCHANGED <<cServer, cUrl, cOptions, cRequests, cResponse, cRetryResponse>>
    /\ UNCHANGED <<gatewayVars, bridgeVars, signerVars, codecVars, verifierVars, demoVars>>

\* await demoResponse.json() settles: a body that is not JSON rejects, and the
\* rejection leaves get(); otherwise the original request is issued again.
get_demoResult ==
    /\ cPc = "json"
    /\ IF cDemoResponse[1].json
       THEN /\ cPc' = "retry"
            /\ cRequests' = Append(cRequests, GatedRequest(cUrl[1], cOptions[1]))
            /\ UNCHANGED cResult
       ELSE /\ cPc' = "rejected"
            /\ cResult' = <<Throw("SyntaxError")>>
            /\ UNCHANGED cRequests
    /\ UNCHANGED <<cServer, cUrl, cOptions, cResponse, cDemoResponse, cRetryResponse>>
    /\ UNCHANGED <<gatewayVars, bridgeVars, signerVars, codecVars, verifierVars, demoVars>>

\* Mutant: a 402 on the retry starts the payment again.
get_retryResponseLoop ==
    /\ cPc = "retry"
    /\ \E retryResponse \in GatedResponses(cRequests[Len(cRequests)]) :
          /\ cRetryResponse' = <<retryResponse>>
          /\ IF retryResponse.status = 402
             THEN /\ cPc' = "demo"
                  /\ cRequests' = Append(cRequests, TriggerRequest)
                  /\ UNCHANGED cResult
             ELSE /\ cPc' = "returned"
                  /\ cResult' = <<Return(retryResponse)>>
                  /\ UNCHANGED cRequests
    /\ gwLog' = Served(cRequests[Len(cRequests)])
    /\ UNCHANGED <<cServer, cUrl, cOptions, cResponse, cDemoResponse>>
    /\ UNCHANGED <<gwEnv, gwConfig, gwTerms, bridgeVars, signerVars, codecVars, verifierVars, demoVars>>

\* The retry resolves: its response is returned, whatever it is.
get_retryResponse ==
    /\ cPc = "retry"
    /\ \E retryResponse \in GatedResponses(cRequests[Len(cRequests)]) :
          /\ cRetryResponse' = <<retryResponse>>
          /\ cResult' = <<Return(retryResponse)>>
    /\ cPc' = "returned"
    /\ gwLog' = Served(cRequests[Len(cRequests)])
    /\ UNCHANGED <<cServer, cUrl, cOptions, cRequests, cResponse, cDemoResponse>>
    /\ UNCHANGED <<gwEnv, gwConfig, gwTerms, bridgeVars, signerVars, codecVars, verifierVars, demoVars>>

\* A fetch in flight rejects (the network fails): the rejection leaves get().
get_fetchRejects ==
    /\ cPc \in {"first", "demo", "retry"}
    /\ cPc' = "rejected"
    /\ cResult' = <<Throw("fetch failed")>>
    /\ UNCHANGED <<cServer, cUrl, cOptions, cRequests, cResponse, cDemoResponse,
                   cRetryResponse>>
    /\ UNCHANGED <<gatewayVars, bridgeVars, signerVars, codecVars, verifierVars, demoVars>>

(***************************************************************************)
(* AddressCodec: usdcx-bridge/helper.js                                    *)
(* Strings are sequences of one-character strings, bytes are 0..255.       *)
(***************************************************************************)

C32_ALPHABET ==
        <<"0", "1", "2", "3", "4", "5", "6", "7", "8", "9", "A", "B", "C", "D", "E",
      "F", "G", "H", "J", "K", "M", "N", "P", "Q", "R", "S", "T", "V", "W", "X", "Y",
      "Z">>

STACKS_TESTNET_P2PKH == 26
STACKS_MAINNET_P2PKH == 22

LowerCase ==
        <<"a", "b", "c", "d", "e", "f", "g", "h", "i", "j", "k", "l", "m", "n", "o",
      "p", "q", "r", "s", "t", "u", "v", "w", "x", "y", "z">>
UpperCase ==
        <<"A", "B", "C", "D", "E", "F", "G", "H", "I", "J", "K", "L", "M", "N", "O",
      "P", "Q", "R", "S", "T", "U", "V", "W", "X", "Y", "Z">>

\* String.prototype.toUpperCase, one character at a time (ASCII letters)
toUpperCase(str) ==
    [i \in 1..Len(str) |->
        IF \E k \in 1..Len(LowerCase) : LowerCase[k] = str[i]
        THEN UpperCase[CHOOSE k \in 1..Len(LowerCase) : LowerCase[k] = str[i]]
        ELSE str[i]]

\* C32_ALPHABET.indexOf(char): the 0-based position, -1 when absent
indexOf(char) ==
    IF \E k \in 1..Len(C32_ALPHABET) : C32_ALPHABET[k] = char
    THEN (CHOOSE k \in 1..Len(C32_ALPHABET) : C32_ALPHABET[k] = char) - 1
    ELSE -1

\* index.toString(2).padStart(5, "0")
FiveBits(index) ==
    <<(index \div 16) % 2, (index \div 8) % 2, (index \div 4) % 2, (index \div 2) % 2,
      index % 2>>

\* The bit string built by the first loop of c32Decode (all characters valid).
RECURSIVE BitString(_)
BitString(str) ==
    IF str = <<>> THEN <<>> ELSE FiveBits(indexOf(Head(str))) \o BitString(Tail(str))

\* while (bits.length % 8 !== 0 && bits.startsWith("0")) bits = bits.slice(1)
RECURSIVE TrimLeadingZeros(_)
TrimLeadingZeros(bits) ==
    IF Len(bits) % 8 # 0 /\ bits # <<>> /\ Head(bits) = 0
    THEN TrimLeadingZeros(Tail(bits))
    ELSE bits

\* Mutant: the bit string is aligned by cutting its high bits off.
PadToByteTruncating(bits) == SubSeq(bits, (Len(bits) % 8) + 1, Len(bits))

\* while (bits.length % 8 !== 0) bits = "0" + bits
RECURSIVE PadToByte(_)
PadToByte(bits) == IF Len(bits) % 8 # 0 THEN PadToByte(<<0>> \o bits) ELSE bits

\* parseInt(bits.slice(i, i + 8), 2) for every byte
ToBytes(bits) ==
    [n \in 1..(Len(bits) \div 8) |->
        LET b(k) == bits[8 * (n - 1) + k]
        IN  128 * b(1) + 64 * b(2) + 32 * b(3) + 16 * b(4) + 8 * b(5) + 4 * b(6)
            + 2 * b(7) + b(8)]

Ok(val) == [ok |-> TRUE, val |-> val, error |-> ""]
Err(message) == [ok |-> FALSE, val |-> <<>>, error |-> message]

\* Mutant: the input is not upper-cased.
c32DecodeCaseSensitive(input) ==
    IF \E i \in 1..Len(input) : indexOf(input[i]) = -1
    THEN Err("Invalid c32 character")
    ELSE Ok(ToBytes(PadToByte(TrimLeadingZeros(BitString(input)))))

\* c32Decode(input): the bytes, or the error thrown
c32Decode(input) ==
    LET upper == toUpperCase(input)
    IN  IF \E i \in 1..Len(upper) : indexOf(upper[i]) = -1
        THEN Err("Invalid c32 character")
        ELSE Ok(ToBytes(PadToByte(TrimLeadingZeros(BitString(upper)))))

\* Mutant: the body is decoded before the prefix is looked at.
encodeRecipientDecodesFirst(stacksAddress) ==
    LET prefix == toUpperCase(SubSeq(stacksAddress, 1, 2))
        decoded == c32Decode(SubSeq(stacksAddress, 3, Len(stacksAddress)))
    IN  IF ~decoded.ok THEN decoded
        ELSE IF prefix # <<"S", "T">> /\ prefix # <<"S", "P">>
        THEN Err("Invalid Stacks address prefix")
        ELSE IF Len(decoded.val) # 24 THEN Err("Invalid decoded length")
        ELSE Ok(<<IF prefix = <<"S", "T">> THEN STACKS_TESTNET_P2PKH
                  ELSE STACKS_MAINNET_P2PKH>> \o SubSeq(decoded.val, 1, 20))

\* Mutant: the last 20 of the 24 bytes are kept, the checksum among them.
encodeRecipientLast20(stacksAddress) ==
    LET prefix == toUpperCase(SubSeq(stacksAddress, 1, 2))
        decoded == c32Decode(SubSeq(stacksAddress, 3, Len(stacksAddress)))
    IN  IF prefix # <<"S", "T">> /\ prefix # <<"S", "P">>
        THEN Err("Invalid Stacks address prefix")
        ELSE IF ~decoded.ok THEN decoded
        ELSE IF Len(decoded.val) # 24 THEN Err("Invalid decoded length")
        ELSE Ok(<<IF prefix = <<"S", "T">> THEN STACKS_TESTNET_P2PKH
                  ELSE STACKS_MAINNET_P2PKH>> \o SubSeq(decoded.val, 5, 24))

\* Mutant: only a decoded body shorter than 24 bytes is refused.
encodeRecipientAtLeast24(stacksAddress) ==
    LET prefix == toUpperCase(SubSeq(stacksAddress, 1, 2))
        decoded == c32Decode(SubSeq(stacksAddress, 3, Len(stacksAddress)))
    IN  IF prefix # <<"S", "T">> /\ prefix # <<"S", "P">>
        THEN Err("Invalid Stacks address prefix")
        ELSE IF ~decoded.ok THEN decoded
        ELSE IF Len(decoded.val) < 24 THEN Err("Invalid decoded length")
        ELSE Ok(<<IF prefix = <<"S", "T">> THEN STACKS_TESTNET_P2PKH
                  ELSE STACKS_MAINNET_P2PKH>> \o SubSeq(decoded.val, 1, 20))

\* encodeRecipient(stacksAddress): version byte + hash160, or the error thrown
encodeRecipient(stacksAddress) ==
    LET prefix == toUpperCase(SubSeq(stacksAddress, 1, 2))
        c32Body == SubSeq(stacksAddress, 3, Len(stacksAddress))
        decoded == c32Decode(c32Body)
    IN  IF prefix # <<"S", "T">> /\ prefix # <<"S", "P">>
        THEN Err("Invalid Stacks address prefix")
        ELSE IF ~decoded.ok THEN decoded
        ELSE IF Len(decoded.val) # 24 THEN Err("Invalid decoded length")
        ELSE Ok(<<IF prefix = <<"S", "T">> THEN STACKS_TESTNET_P2PKH
                  ELSE STACKS_MAINNET_P2PKH>>
                \o SubSeq(decoded.val, 1, 20))

HexAlphabet ==
    <<"0", "1", "2", "3", "4", "5", "6", "7", "8", "9", "a", "b", "c", "d", "e", "f">>

\* Buffer.from(bytes).toString("hex"): two lower-case hex digits for every byte
toHex(bytes) ==
    [i \in 1..(2 * Len(bytes)) |->
        IF i % 2 = 1 THEN HexAlphabet[(bytes[(i + 1) \div 2] \div 16) + 1]
        ELSE HexAlphabet[(bytes[i \div 2] % 16) + 1]]

\* viem's pad(`0x${hex}`, { size, dir: "left" }): the digits padded at the
\* start with "0" to 2 * size digits, behind "0x"
pad(hex, size) ==
    <<"0", "x">> \o [i \in 1..(2 * size - Len(hex)) |-> "0"] \o hex

\* Mutant: no input is refused for its length.
bytes32FromBytesAnyLength(bytes) ==
    Ok(<<"0", "x">> \o [i \in 1..(64 - 2 * Len(bytes)) |-> "0"] \o toHex(bytes))

\* Mutant: zero bytes are appended, not prepended.
bytes32FromBytesRightPadded(bytes) ==
    IF Len(bytes) > 32
    THEN Err("Input too long")
    ELSE Ok(<<"0", "x">> \o toHex(bytes) \o [i \in 1..(64 - 2 * Len(bytes)) |-> "0"])

\* bytes32FromBytes(bytes): the 0x hex string of the input left-padded with
\* zero bytes to 32 bytes, or the error thrown
bytes32FromBytes(bytes) ==
    IF Len(bytes) > 32
    THEN Err("Input too long")
    ELSE Ok(pad(toHex(bytes), 32))

\* encodeStacksAddress(stacksAddress) = bytes32FromBytes(remoteRecipientCoder.encode(...))
encodeStacksAddress(stacksAddress) ==
    LET encoded == encodeRecipient(stacksAddress)
    IN  IF ~encoded.ok THEN encoded ELSE bytes32FromBytes(encoded.val)

(***************************************************************************)
(* BridgeDepositFlow: main() of the deposit script                         *)
(***************************************************************************)

\* config
X_RESERVE_CONTRACT == "0x008888878f94C0d87defdf0B07f46B93C1934442"
ETH_USDC_CONTRACT == "0x1c7D4B196Cb0C7B01d743Fbc6116a902379C7238"
STACKS_DOMAIN == 10003
\* "ST3Q6YCK0E2SDAA1KS7X546NY02F12D88RZHAH2P3"
STACKS_RECIPIENT ==
    <<"S", "T", "3", "Q", "6", "Y", "C", "K", "0", "E", "2", "S", "D", "A", "A", "1",
      "K", "S", "7", "X", "5", "4", "6", "N", "Y", "0", "2", "F", "1", "2", "D", "8",
      "8", "R", "Z", "H", "A", "H", "2", "P", "3">>
\* "1.00" and "0" as integer part and fraction digits
DEPOSIT_AMOUNT == [int |-> 1, frac |-> <<0, 0>>]
MAX_FEE == [int |-> 0, frac |-> <<>>]
USDC_DECIMALS == 6

\* The fraction digits d1 d2 ... dk scaled to `decimals` places (k <= decimals).
RECURSIVE FractionUnits(_, _)
FractionUnits(frac, decimals) ==
    IF frac = <<>> THEN 0
    ELSE Head(frac) * 10 ^ (decimals - 1) + FractionUnits(Tail(frac), decimals - 1)

\* viem's parseUnits(value, decimals) for a non-negative decimal string
parseUnits(amount, decimals) ==
    amount.int * 10 ^ decimals + FractionUnits(amount.frac, decimals)

\* const value = parseUnits(config.DEPOSIT_AMOUNT, 6)
value == parseUnits(DEPOSIT_AMOUNT, USDC_DECIMALS)
\* const maxFee = parseUnits(config.MAX_FEE, 6)
maxFee == parseUnits(MAX_FEE, USDC_DECIMALS)

\* process.env.ETHEREUM_PRIVATE_KEY: unset, empty, a 32-byte hex key, something else
PrivateKeys == {Undefined, Str(""), Str("0x<64 hex digits>"), Str("not-a-key")}
\* privateKeyToAccount throws for anything that is not a 32-byte hex key
ValidKey(key) == key = Str("0x<64 hex digits>")

\* Values of config.STACKS_RECIPIENT: the one shipped, the same identity as a
\* mainnet address, and addresses the codec rejects (unknown prefix SM, the
\* character L, a body that is too short).
Recipients ==
    {STACKS_RECIPIENT,
     <<"S", "P">> \o SubSeq(STACKS_RECIPIENT, 3, Len(STACKS_RECIPIENT)),
     <<"S", "M">> \o SubSeq(STACKS_RECIPIENT, 3, Len(STACKS_RECIPIENT)),
     SubSeq(STACKS_RECIPIENT, 1, Len(STACKS_RECIPIENT) - 1) \o <<"L">>,
     SubSeq(STACKS_RECIPIENT, 1, 30)}

\* Balances the chain may report (wei; USDC base units).
EthBalances == {0, 1000000, 2000000000}
UsdcBalances == {0, 1, 999999, 1000000, 2500000}

\* Mutant: the balance in base units is compared with the amount in display units.
InsufficientUsdcDisplayUnits(usdcBalance, required) == usdcBalance < DEPOSIT_AMOUNT.int

\* if (usdcBalance < value) throw
InsufficientUsdc(usdcBalance, required) == usdcBalance < required

\* walletClient.writeContract({ functionName: "approve", args: [X_RESERVE_CONTRACT, value] })
ApproveTx ==
    [address |-> ETH_USDC_CONTRACT, functionName |-> "approve",
     args |-> [spender |-> X_RESERVE_CONTRACT, amount |-> value]]

\* Mutant: the deposit call is given the amount in display units.
DepositTxDisplayUnits(remoteRecipient) ==
    [address |-> X_RESERVE_CONTRACT, functionName |-> "depositToRemote",
     args |-> [value |-> DEPOSIT_AMOUNT.int, remoteDomain |-> STACKS_DOMAIN,
               remoteRecipient |-> remoteRecipient, localToken |-> ETH_USDC_CONTRACT,
               maxFee |-> maxFee, hookData |-> "0x"]]

\* walletClient.writeContract({ functionName: "depositToRemote", args: [...] })
DepositTx(remoteRecipient) ==
    [address |-> X_RESERVE_CONTRACT, functionName |-> "depositToRemote",
     args |-> [value |-> value, remoteDomain |-> STACKS_DOMAIN,
               remoteRecipient |-> remoteRecipient, localToken |-> ETH_USDC_CONTRACT,
               maxFee |-> maxFee, hookData |-> "0x"]]

BridgeIdle ==
    /\ bPc = "start"
    /\ bKey = Undefined
    /\ bRecipient = STACKS_RECIPIENT
    /\ bRemoteRecipient = <<>>
    /\ bEthBalance = <<>>
    /\ bUsdcBalance = <<>>
    /\ bTxs = <<>>
    /\ bApproval = "none"
    /\ bDeposit = "none"
    /\ bError = <<>>
    /\ bExit = <<>>

\* main() runs to its first await: the key check, the account and the two
\* clients, then getBalance is called.
main_start ==
    /\ bPc = "start"
    /\ IF ~Truthy(bKey)
       THEN bPc' = "failed" /\ bError' = <<"ETHEREUM_PRIVATE_KEY missing">>
       ELSE IF ~ValidKey(bKey)
       THEN bPc' = "failed" /\ bError' = <<"invalid private key">>
       ELSE bPc' = "getBalance" /\ UNCHANGED bError
    /\ UNCHANGED <<bExit, bKey, bRecipient, bRemoteRecipient, bEthBalance, bUsdcBalance, bTxs, bApproval, bDeposit>>
    /\ UNCHANGED <<clientVars, gatewayVars, signerVars, codecVars, verifierVars, demoVars>>

\* getBalance resolves: the ETH balance is logged, the amounts are parsed and
\* balanceOf is read.
main_getBalance ==
    /\ bPc = "getBalance"
    /\ \E ethBalance \in EthBalances : bEthBalance' = <<ethBalance>>
    /\ bPc' = "readContract"
    /\ UNCHANGED <<bExit, bKey, bRecipient, bRemoteRecipient, bUsdcBalance, bTxs, bApproval, bDeposit, bError>>
    /\ UNCHANGED <<clientVars, gatewayVars, signerVars, codecVars, verifierVars, demoVars>>

\* Mutant: the approve transaction is submitted before the recipient is encoded.
main_readContractApprovesFirst ==
    /\ bPc = "readContract"
    /\ \E usdcBalance \in UsdcBalances :
          /\ bUsdcBalance' = <<usdcBalance>>
          /\ IF InsufficientUsdc(usdcBalance, value)
             THEN /\ bPc' = "failed"
                  /\ bError' = <<"Insufficient USDC">>
                  /\ UNCHANGED <<bTxs, bRemoteRecipient>>
             ELSE /\ bTxs' = Append(bTxs, ApproveTx)
                  /\ IF ~encodeStacksAddress(bRecipient).ok
                     THEN /\ bPc' = "failed"
                          /\ bError' = <<encodeStacksAddress(bRecipient).error>>
                          /\ UNCHANGED bRemoteRecipient
                     ELSE /\ bPc' = "approve"
                          /\ bRemoteRecipient' = <<encodeStacksAddress(bRecipient).val>>
                          /\ UNCHANGED bError
    /\ UNCHANGED <<bExit, bKey, bRecipient, bEthBalance, bApproval, bDeposit>>
    /\ UNCHANGED <<clientVars, gatewayVars, signerVars, codecVars, verifierVars, demoVars>>

\* balanceOf resolves: the balance check, then the recipient is encoded
\* (encodeStacksAddress may throw) and the approve transaction is submitted.
main_readContract ==
    /\ bPc = "readContract"
    /\ \E usdcBalance \in UsdcBalances :
          /\ bUsdcBalance' = <<usdcBalance>>
          /\ IF InsufficientUsdc(usdcBalance, value)
             THEN /\ bPc' = "failed"
                  /\ bError' = <<"Insufficient USDC">>
                  /\ UNCHANGED <<bTxs, bRemoteRecipient>>
             ELSE IF ~encodeStacksAddress(bRecipient).ok
             THEN /\ bPc' = "failed"
                  /\ bError' = <<encodeStacksAddress(bRecipient).error>>
                  /\ UNCHANGED <<bTxs, bRemoteRecipient>>
             ELSE /\ bPc' = "approve"
                  /\ bRemoteRecipient' = <<encodeStacksAddress(bRecipient).val>>
                  /\ bTxs' = Append(bTxs, ApproveTx)
                  /\ UNCHANGED bError
    /\ UNCHANGED <<bExit, bKey, bRecipient, bEthBalance, bApproval, bDeposit>>
    /\ UNCHANGED <<clientVars, gatewayVars, signerVars, codecVars, verifierVars, demoVars>>

\* writeContract(approve) resolves with the hash: the wait for its receipt starts.
main_approveTxHash ==
    /\ bPc = "approve"
    /\ bApproval' = "pending"
    /\ bPc' = "waitApproval"
    /\ UNCHANGED <<bExit, bKey, bRecipient, bRemoteRecipient, bEthBalance, bUsdcBalance, bTxs, bDeposit, bError>>
    /\ UNCHANGED <<clientVars, gatewayVars, signerVars, codecVars, verifierVars, demoVars>>

\* waitForTransactionReceipt(approveTxHash) resolves with a receipt, whose
\* status (success or reverted) main() does not read; the deposit is submitted.
main_approveReceipt ==
    /\ bPc = "waitApproval"
    /\ \E status \in {"confirmed", "failed"} : bApproval' = status
    /\ bTxs' = Append(bTxs, DepositTx(bRemoteRecipient[1]))
    /\ bPc' = "deposit"
    /\ UNCHANGED <<bExit, bKey, bRecipient, bRemoteRecipient, bEthBalance, bUsdcBalance, bDeposit, bError>>
    /\ UNCHANGED <<clientVars, gatewayVars, signerVars, codecVars, verifierVars, demoVars>>

\* writeContract(depositToRemote) resolves with the hash: the wait for its receipt starts.
main_depositTxHash ==
    /\ bPc = "deposit"
    /\ bDeposit' = "pending"
    /\ bPc' = "waitDeposit"
    /\ UNCHANGED <<bExit, bKey, bRecipient, bRemoteRecipient, bEthBalance, bUsdcBalance, bTxs, bApproval, bError>>
    /\ UNCHANGED <<clientVars, gatewayVars, signerVars, codecVars, verifierVars, demoVars>>

\* Mutant: after a receipt the flow waits for the next one instead of returning.
main_depositReceiptPolls ==
    /\ bPc = "waitDeposit"
    /\ \E status \in {"confirmed", "failed"} : bDeposit' = status
    /\ UNCHANGED bPc
    /\ UNCHANGED <<bExit, bKey, bRecipient, bRemoteRecipient, bEthBalance, bUsdcBalance, bTxs, bApproval, bError>>
    /\ UNCHANGED <<clientVars, gatewayVars, signerVars, codecVars, verifierVars, demoVars>>

\* waitForTransactionReceipt(depositTxHash) resolves: main() returns.
main_depositReceipt ==
    /\ bPc = "waitDeposit"
    /\ \E status \in {"confirmed", "failed"} : bDeposit' = status
    /\ bPc' = "done"
    /\ UNCHANGED <<bExit, bKey, bRecipient, bRemoteRecipient, bEthBalance, bUsdcBalance, bTxs, bApproval, bError>>
    /\ UNCHANGED <<clientVars, gatewayVars, signerVars, codecVars, verifierVars, demoVars>>

\* Mutant: a rejected approve submission is submitted again.
main_rejectsRetry ==
    /\ bPc \in {"getBalance", "readContract", "approve", "waitApproval", "deposit",
                "waitDeposit"}
    /\ IF bPc = "approve"
       THEN /\ bTxs' = Append(bTxs, ApproveTx)
            /\ UNCHANGED <<bPc, bError>>
       ELSE /\ bError' = <<"chain error">>
            /\ bPc' = "failed"
            /\ UNCHANGED bTxs
    /\ UNCHANGED <<bExit, bKey, bRecipient, bRemoteRecipient, bEthBalance, bUsdcBalance, bApproval, bDeposit>>
    /\ UNCHANGED <<clientVars, gatewayVars, signerVars, codecVars, verifierVars, demoVars>>

\* The awaited chain call rejects: main() rejects and console.error logs it.
main_rejects ==
    /\ bPc \in {"getBalance", "readContract", "approve", "waitApproval", "deposit",
                "waitDeposit"}
    /\ bError' = <<"chain error">>
    /\ bPc' = "failed"
    /\ UNCHANGED <<bExit, bKey, bRecipient, bRemoteRecipient, bEthBalance, bUsdcBalance, bTxs, bApproval, bDeposit>>
    /\ UNCHANGED <<clientVars, gatewayVars, signerVars, codecVars, verifierVars, demoVars>>

\* main().catch(console.error): main() has settled, by returning or by a
\* rejection that console.error has logged; nothing is pending and nothing
\* sets process.exitCode, so the process ends with exit code 0.
main_exit ==
    /\ bPc \in {"done", "failed"}
    /\ bExit = <<>>
    /\ bExit' = <<0>>
    /\ UNCHANGED <<bPc, bKey, bRecipient, bRemoteRecipient, bEthBalance, bUsdcBalance, bTxs, bApproval, bDeposit,
                   bError>>
    /\ UNCHANGED <<clientVars, gatewayVars, signerVars, codecVars, verifierVars, demoVars>>

(***************************************************************************)
(* SignerService: main() of stacks-signer.js                               *)
(***************************************************************************)

DecimalDigits == <<"0", "1", "2", "3", "4", "5", "6", "7", "8", "9">>
DecimalDigitSet == {DecimalDigits[i] : i \in DOMAIN DecimalDigits}
HexDigits == DecimalDigitSet \cup {"a", "b", "c", "d", "e", "f", "A", "B", "C", "D", "E", "F"}

IsDecimal(str) == str # <<>> /\ \A i \in DOMAIN str : str[i] \in DecimalDigitSet
IsHex(str) == str # <<>> /\ \A i \in DOMAIN str : str[i] \in HexDigits

\* The value of a string of decimal digits.
RECURSIVE DecimalValue(_)
DecimalValue(digits) ==
    IF digits = <<>> THEN 0
    ELSE DecimalValue(SubSeq(digits, 1, Len(digits) - 1)) * 10
            + (CHOOSE d \in 0..9 : DecimalDigits[d + 1] = digits[Len(digits)])

\* The decimal digits of a natural number (used by the mutant of SuccessLine).
RECURSIVE ToDecimal(_)
ToDecimal(n) ==
    IF n < 10 THEN <<DecimalDigits[n + 1]>>
    ELSE ToDecimal(n \div 10) \o <<DecimalDigits[(n % 10) + 1]>>

\* White space at either end of a string is ignored by BigInt.
RECURSIVE TrimStart(_)
TrimStart(str) ==
    IF str # <<>> /\ Head(str) = " " THEN TrimStart(Tail(str)) ELSE str
RECURSIVE TrimEnd(_)
TrimEnd(str) ==
    IF str # <<>> /\ str[Len(str)] = " "
    THEN TrimEnd(SubSeq(str, 1, Len(str) - 1)) ELSE str

\* BigInt(amountStr) for a string: the empty string is 0n, an optionally
\* signed string of decimal digits is its value, anything else throws a
\* SyntaxError.  (The 0x, 0o and 0b literals are not among the inputs.)
BigInt(str) ==
    LET text == TrimEnd(TrimStart(str))
    IN  IF text = <<>> THEN Ok(0)
        ELSE IF IsDecimal(text) THEN Ok(DecimalValue(text))
        ELSE IF Head(text) = "+" /\ IsDecimal(Tail(text)) THEN Ok(DecimalValue(Tail(text)))
        ELSE IF Head(text) = "-" /\ IsDecimal(Tail(text)) THEN Ok(0 - DecimalValue(Tail(text)))
        ELSE Err("Cannot convert to a BigInt")

\* Mutant: the suffix is appended to every key.
compressedKeyAlways(privateKey) == privateKey \o <<"0", "1">>

\* if (privateKey.length === 64) privateKey = privateKey + '01'
compressedKey(privateKey) ==
    IF Len(privateKey) = 64 THEN privateKey \o <<"0", "1">> ELSE privateKey

\* The library accepts 32 bytes of hex, or 33 bytes whose last byte is 01.
ValidPrivateKey(privateKey) ==
    /\ IsHex(privateKey)
    /\ \/ Len(privateKey) = 64
       \/ /\ Len(privateKey) = 66
          /\ SubSeq(privateKey, 65, 66) = <<"0", "1">>

\* getAddressFromPrivateKey(privateKey, 'testnet'): the address is a function
\* of the key given (the compression suffix included), or the call throws.
getAddressFromPrivateKey(privateKey) ==
    IF ValidPrivateKey(privateKey)
    THEN Ok([network |-> "testnet", addressOf |-> privateKey])
    ELSE Err("Improperly formatted private-key")

\* uintCV(amount) throws for a negative value
uintCV(amount) ==
    IF amount < 0 THEN Err("Cannot construct unsigned clarity integer from negative value")
    ELSE Ok([type |-> "uint", value |-> amount])

\* Recipient strings: a standard principal, a contract principal, and a
\* string that is no principal.
SignerRecipients ==
    {"ST3Q6YCK0E2SDAA1KS7X546NY02F12D88RZHAH2P3",
     "ST1PQHQKV0RJXZFY1DGX8MNSNYVE3VGZJSRTPGZGM.vault",
     "not-a-principal"}
\* principalCV(recipient) throws for a string that is no principal
principalCV(recipient) ==
    IF recipient = "not-a-principal" THEN Err("Invalid c32 address")
    ELSE Ok([type |-> "principal", value |-> recipient])

\* const USDCX_CONTRACT = 'ST1PQHQKV0RJXZFY1DGX8MNSNYVE3VGZJSRTPGZGM.usdcx'
USDCX_CONTRACT == [contractAddress |-> "ST1PQHQKV0RJXZFY1DGX8MNSNYVE3VGZJSRTPGZGM",
                   contractName |-> "usdcx"]
SIGNER_FEE == 10000

\* const txOptions = { ... }
txOptions(amount, senderAddress, recipient, privateKey) ==
    [network |-> "STACKS_TESTNET",
     contractAddress |-> USDCX_CONTRACT.contractAddress,
     contractName |-> USDCX_CONTRACT.contractName,
     functionName |-> "transfer",
     functionArgs |-> <<uintCV(amount).val,
                        [type |-> "principal", value |-> senderAddress],
                        principalCV(recipient).val,
                        [type |-> "none"]>>,
     senderKey |-> privateKey,
     postConditionMode |-> "Allow",
     fee |-> SIGNER_FEE]

\* One line of standard output: the object given to JSON.stringify.  A key
\* whose value is undefined is left out of the text; it is Undefined here.
FailureLine(error, reason) ==
    [success |-> FALSE, error |-> error, reason |-> reason, txid |-> Undefined,
     sender |-> Undefined, recipient |-> Undefined, amount |-> Undefined]

\* Mutant: the amount is written as the parsed number, not as the string given.
SuccessLineParsedAmount(txid, senderAddress, recipient, amountStr) ==
    [success |-> TRUE, error |-> Undefined, reason |-> Undefined, txid |-> txid,
     sender |-> Str(senderAddress), recipient |-> Str(recipient),
     amount |-> Str(ToDecimal(BigInt(amountStr).val))]

SuccessLine(txid, senderAddress, recipient, amountStr) ==
    [success |-> TRUE, error |-> Undefined, reason |-> Undefined, txid |-> txid,
     sender |-> Str(senderAddress), recipient |-> Str(recipient),
     amount |-> Str(amountStr)]

UsageLine ==
    FailureLine(Str("Usage: node stacks-signer.js <privateKey> <recipient> <amount>"),
                Undefined)

\* A 64-digit hex key
PrivateKey64 == [i \in 1..64 |-> IF i % 2 = 1 THEN "7" ELSE "e"]
\* Keys given on the command line: 64 hex digits, the same with the suffix
\* 01, with another suffix, 64 characters that are no hex digits, a short one.
SignerKeys ==
    {PrivateKey64,
     PrivateKey64 \o <<"0", "1">>,
     PrivateKey64 \o <<"0", "2">>,
     [i \in 1..64 |-> "z"],
     <<"a", "b", "c">>}
\* Amount strings: "100000", "1", "0", "007", "+5", "-5", "1.5", "abc", "", " 42"
AmountStrings ==
    {<<"1", "0", "0", "0", "0", "0">>, <<"1">>, <<"0">>, <<"0", "0", "7">>,
     <<"+", "5">>, <<"-", "5">>, <<"1", ".", "5">>, <<"a", "b", "c">>, <<>>,
     <<" ", "4", "2">>}
\* Argument lists of length 0 to 4
ArgLists ==
    {<<>>}
    \cup {<<privateKey>> : privateKey \in SignerKeys}
    \cup {<<privateKey, recipient>> :
            privateKey \in SignerKeys, recipient \in SignerRecipients}
    \cup {<<privateKey, recipient, amountStr>> :
            privateKey \in SignerKeys, recipient \in SignerRecipients,
            amountStr \in AmountStrings}
    \cup {<<privateKey, recipient, amountStr, "extra">> :
            privateKey \in SignerKeys, recipient \in SignerRecipients,
            amountStr \in {<<"1">>, <<"a", "b", "c">>}}

\* What broadcastTransaction resolves with: { txid } when the node accepted
\* the transaction, { error, reason, txid } when it rejected it.
BroadcastResponses ==
    {[error |-> Undefined, reason |-> Undefined, txid |-> Str("9f2c41d0")],
     [error |-> Undefined, reason |-> Undefined, txid |-> Str("51aa07be")],
     [error |-> Str("transaction rejected"), reason |-> Str("NotEnoughFunds"),
      txid |-> Str("9f2c41d0")],
     [error |-> Str("transaction rejected"), reason |-> Undefined,
      txid |-> Str("9f2c41d0")]}
\* Messages of the errors makeContractCall and broadcastTransaction reject with
RejectionMessages == {"fetch failed", "Failed to broadcast transaction"}

SignerIdle ==
    /\ sPc = "start"
    /\ sArgs = <<>>
    /\ sPrivateKey = <<>>
    /\ sSender = <<>>
    /\ sBuilt = <<>>
    /\ sBroadcasts = <<>>
    /\ sResponse = <<>>
    /\ sStdout = <<>>
    /\ sUncaught = <<>>
    /\ sExit = <<>>

\* catch (error) { console.log(JSON.stringify({ success: false, error: ... })); process.exit(1); }
main_catch(message) ==
    /\ sStdout' = Append(sStdout, FailureLine(Str(message), Undefined))
    /\ sExit' = <<1>>
    /\ sPc' = "exited"

\* Mutant: the usage message is written but the process does not exit there;
\* main() goes on to read the arguments.
main_usageFallsThrough ==
    /\ sStdout' = Append(sStdout, UsageLine)
    /\ sPrivateKey' = IF Len(sArgs) >= 1 THEN <<sArgs[1]>> ELSE <<>>
    /\ sUncaught' = <<"Cannot convert undefined to a BigInt">>
    /\ sExit' = <<1>>
    /\ sPc' = "exited"
    /\ UNCHANGED <<sSender, sBuilt>>

\* if (args.length < 3) { console.log(...usage...); process.exit(1); }
main_usage ==
    /\ sStdout' = Append(sStdout, UsageLine)
    /\ sExit' = <<1>>
    /\ sPc' = "exited"
    /\ UNCHANGED <<sPrivateKey, sSender, sBuilt, sUncaught>>

\* main() runs to its first await: the usage check, the arguments, the
\* amount, the key suffix, the sender address and txOptions, then
\* makeContractCall is called.  BigInt(amountStr) stands before the try
\* block: what it throws rejects the promise of main(), which nothing
\* handles, so the runtime prints the error to standard error and ends the
\* process with exit code 1.
signer_main ==
    /\ sPc = "start"
    /\ IF Len(sArgs) < 3
       THEN main_usage
       ELSE LET recipient == sArgs[2]
                amountStr == sArgs[3]
                amount == BigInt(amountStr)
                privateKey == compressedKey(sArgs[1])
                senderAddress == getAddressFromPrivateKey(privateKey)
            IN  IF ~amount.ok
                THEN /\ sPrivateKey' = <<sArgs[1]>>
                     /\ sUncaught' = <<amount.error>>
                     /\ sExit' = <<1>>
                     /\ sPc' = "exited"
                     /\ UNCHANGED <<sSender, sBuilt, sStdout>>
                ELSE /\ sPrivateKey' = <<privateKey>>
                     /\ UNCHANGED sUncaught
                     /\ IF ~senderAddress.ok
                        THEN /\ main_catch(senderAddress.error)
                             /\ UNCHANGED <<sSender, sBuilt>>
                        ELSE /\ sSender' = <<senderAddress.val>>
                             /\ IF ~uintCV(amount.val).ok
                                THEN /\ main_catch(uintCV(amount.val).error)
                                     /\ UNCHANGED sBuilt
                                ELSE IF ~principalCV(recipient).ok
                                THEN /\ main_catch(principalCV(recipient).error)
                                     /\ UNCHANGED sBuilt
                                ELSE /\ sBuilt' = Append(sBuilt,
                                            txOptions(amount.val, senderAddress.val,
                                                      recipient, privateKey))
                                     /\ sPc' = "makeContractCall"
                                     /\ UNCHANGED <<sStdout, sExit>>
    /\ UNCHANGED <<sArgs, sBroadcasts, sResponse>>
    /\ UNCHANGED <<clientVars, gatewayVars, bridgeVars, codecVars, verifierVars, demoVars>>

\* makeContractCall resolves with the signed transaction, which is handed to
\* broadcastTransaction.
signer_makeContractCall ==
    /\ sPc = "makeContractCall"
    /\ sBroadcasts' = Append(sBroadcasts,
                             [transaction |-> sBuilt[Len(sBuilt)],
                              network |-> "STACKS_TESTNET"])
    /\ sPc' = "broadcastTransaction"
    /\ UNCHANGED <<sArgs, sPrivateKey, sSender, sBuilt, sResponse, sStdout, sUncaught, sExit>>
    /\ UNCHANGED <<clientVars, gatewayVars, bridgeVars, codecVars, verifierVars, demoVars>>

\* Mutant: a rejected transaction is broadcast again.
signer_broadcastResponseRetry ==
    /\ sPc = "broadcastTransaction"
    /\ \E broadcastResponse \in BroadcastResponses :
          /\ sResponse' = <<broadcastResponse>>
          /\ IF Truthy(broadcastResponse.error)
             THEN /\ sBroadcasts' = Append(sBroadcasts, sBroadcasts[Len(sBroadcasts)])
                  /\ UNCHANGED <<sStdout, sExit, sPc>>
             ELSE /\ sStdout' = Append(sStdout,
                         SuccessLine(broadcastResponse.txid, sSender[1], sArgs[2], sArgs[3]))
                  /\ sExit' = <<0>>
                  /\ sPc' = "exited"
                  /\ UNCHANGED sBroadcasts
    /\ UNCHANGED <<sArgs, sPrivateKey, sSender, sBuilt, sUncaught>>
    /\ UNCHANGED <<clientVars, gatewayVars, bridgeVars, codecVars, verifierVars, demoVars>>

\* broadcastTransaction resolves: a response with an error is reported with
\* its reason and the process exits with code 1; otherwise the success line
\* is written, main() returns and the process ends with exit code 0.
signer_broadcastResponse ==
    /\ sPc = "broadcastTransaction"
    /\ \E broadcastResponse \in BroadcastResponses :
          /\ sResponse' = <<broadcastResponse>>
          /\ IF Truthy(broadcastResponse.error)
             THEN /\ sStdout' = Append(sStdout,
                         FailureLine(broadcastResponse.error, broadcastResponse.reason))
                  /\ sExit' = <<1>>
             ELSE /\ sStdout' = Append(sStdout,
                         SuccessLine(broadcastResponse.txid, sSender[1], sArgs[2], sArgs[3]))
                  /\ sExit' = <<0>>
    /\ sPc' = "exited"
    /\ UNCHANGED <<sArgs, sPrivateKey, sSender, sBuilt, sBroadcasts, sUncaught>>
    /\ UNCHANGED <<clientVars, gatewayVars, bridgeVars, codecVars, verifierVars, demoVars>>

\* The awaited call (makeContractCall or broadcastTransaction) rejects: the
\* catch block reports the error.
signer_rejects ==
    /\ sPc \in {"makeContractCall", "broadcastTransaction"}
    /\ \E message \in RejectionMessages : main_catch(message)
    /\ UNCHANGED <<sArgs, sPrivateKey, sSender, sBuilt, sBroadcasts, sResponse, sUncaught>>
    /\ UNCHANGED <<clientVars, gatewayVars, bridgeVars, codecVars, verifierVars, demoVars>>

(***************************************************************************)
(* AddressCodec applied to one address, or to one byte string              *)
(***************************************************************************)

\* Longest c32 body given to the codec
MaxBodyLen == 41
\* Longest byte string given to bytes32FromBytes
MaxBytesLen == 34

CodecPrefixes == {<<"S", "T">>, <<"S", "P">>, <<"s", "t">>, <<"S", "M">>}
\* First characters of a body: they decide how many leading zero bits the
\* decoder may trim; L is not in the c32 alphabet.
CodecFirstChars == {"0", "1", "3", "Z", "L"}
\* The first n characters of the shipped recipient's body written twice,
\* with the first character replaced.
CodecBody(n, first) ==
    LET body == SubSeq(STACKS_RECIPIENT, 3, Len(STACKS_RECIPIENT))
    IN  IF n = 0 THEN <<>> ELSE <<first>> \o SubSeq(body \o body, 2, n)
CodecAddresses ==
    {prefix \o CodecBody(n, first) :
        prefix \in CodecPrefixes, n \in 0..MaxBodyLen, first \in CodecFirstChars}

\* Stacks addresses as the chain issues them: a version, the 20-byte identity
\* (hash160) and the 4-byte checksum, the first four bytes of
\* sha256(sha256(version byte, identity)).
ValidIdentities ==
    {\* ST3Q6YCK0E2SDAA1KS7X546NY02F12D88RZHAH2P3: the shipped recipient
     [version |-> 26,
      identity |-> <<238, 111, 50, 96, 112, 178, 213, 40, 51, 201, 250, 82, 26, 190, 0, 158, 17, 53, 8, 199>>,
      checksum |-> <<226, 168, 138, 195>>],
     \* ST000000000000000000002AMW42H: the burn address: twenty zero bytes
     [version |-> 26,
      identity |-> <<0, 0, 0, 0, 0, 0, 0, 0, 0, 0, 0, 0, 0, 0, 0, 0, 0, 0, 0, 0>>,
      checksum |-> <<149, 78, 16, 81>>],
     \* ST06YCK0E2SDAA1KS7X546NY02F12D88RYZAPZWY: one leading zero byte
     [version |-> 26,
      identity |-> <<0, 111, 50, 96, 112, 178, 213, 40, 51, 201, 250, 82, 26, 190, 0, 158, 17, 53, 8, 199>>,
      checksum |-> <<190, 171, 127, 158>>],
     \* STPYCK0E2SDAA1KS7X546NY02F12D88RWDHNKXE: first byte 01: seven leading zero bits
     [version |-> 26,
      identity |-> <<1, 111, 50, 96, 112, 178, 213, 40, 51, 201, 250, 82, 26, 190, 0, 158, 17, 53, 8, 199>>,
      checksum |-> <<27, 26, 207, 174>>],
     \* ST3PYCK0E2SDAA1KS7X546NY02F12D88RYBHE002: first byte 07
     [version |-> 26,
      identity |-> <<7, 111, 50, 96, 112, 178, 213, 40, 51, 201, 250, 82, 26, 190, 0, 158, 17, 53, 8, 199>>,
      checksum |-> <<151, 23, 0, 2>>],
     \* STG6YCK0E2SDAA1KS7X546NY02F12D88RXFAYV17: first byte 20
     [version |-> 26,
      identity |-> <<32, 111, 50, 96, 112, 178, 213, 40, 51, 201, 250, 82, 26, 190, 0, 158, 17, 53, 8, 199>>,
      checksum |-> <<94, 175, 108, 39>>],
     \* ST3ZZZZZZZZZZZZZZZZZZZZZZZZZZZZZZZX943WZ1: all bits set
     [version |-> 26,
      identity |-> <<255, 255, 255, 255, 255, 255, 255, 255, 255, 255, 255, 255, 255, 255, 255, 255, 255, 255, 255, 255>>,
      checksum |-> <<82, 65, 243, 225>>],
     \* SP3Q6YCK0E2SDAA1KS7X546NY02F12D88RXZV56Y9: the shipped recipient
     [version |-> 22,
      identity |-> <<238, 111, 50, 96, 112, 178, 213, 40, 51, 201, 250, 82, 26, 190, 0, 158, 17, 53, 8, 199>>,
      checksum |-> <<127, 178, 155, 201>>],
     \* SP000000000000000000002Q6VF78: the burn address: twenty zero bytes
     [version |-> 22,
      identity |-> <<0, 0, 0, 0, 0, 0, 0, 0, 0, 0, 0, 0, 0, 0, 0, 0, 0, 0, 0, 0>>,
      checksum |-> <<174, 109, 188, 232>>],
     \* SP06YCK0E2SDAA1KS7X546NY02F12D88RZDBFHFF: one leading zero byte
     [version |-> 22,
      identity |-> <<0, 111, 50, 96, 112, 178, 213, 40, 51, 201, 250, 82, 26, 190, 0, 158, 17, 53, 8, 199>>,
      checksum |-> <<218, 183, 197, 239>>],
     \* SPPYCK0E2SDAA1KS7X546NY02F12D88RZXGQ6J4: first byte 01: seven leading zero bits
     [version |-> 22,
      identity |-> <<1, 111, 50, 96, 112, 178, 213, 40, 51, 201, 250, 82, 26, 190, 0, 158, 17, 53, 8, 199>>,
      checksum |-> <<251, 11, 154, 68>>],
     \* SP3PYCK0E2SDAA1KS7X546NY02F12D88RX5575A2: first byte 07
     [version |-> 22,
      identity |-> <<7, 111, 50, 96, 112, 178, 213, 40, 51, 201, 250, 82, 26, 190, 0, 158, 17, 53, 8, 199>>,
      checksum |-> <<74, 83, 149, 66>>],
     \* SPG6YCK0E2SDAA1KS7X546NY02F12D88RWDM94P6: first byte 20
     [version |-> 22,
      identity |-> <<32, 111, 50, 96, 112, 178, 213, 40, 51, 201, 250, 82, 26, 190, 0, 158, 17, 53, 8, 199>>,
      checksum |-> <<27, 68, 146, 198>>],
     \* SP3ZZZZZZZZZZZZZZZZZZZZZZZZZZZZZZZW9P3P0G: all bits set
     [version |-> 22,
      identity |-> <<255, 255, 255, 255, 255, 255, 255, 255, 255, 255, 255, 255, 255, 255, 255, 255, 255, 255, 255, 255>>,
      checksum |-> <<19, 97, 216, 16>>]}

\* The bits of a byte string, eight for every byte.
RECURSIVE BitsOfBytes(_)
BitsOfBytes(bytes) ==
    IF bytes = <<>> THEN <<>>
    ELSE LET b == Head(bytes)
         IN  <<(b \div 128) % 2, (b \div 64) % 2, (b \div 32) % 2, (b \div 16) % 2,
               (b \div 8) % 2, (b \div 4) % 2, (b \div 2) % 2, b % 2>>
             \o BitsOfBytes(Tail(bytes))

RECURSIVE StripLeading(_, _)
StripLeading(seq, x) ==
    IF seq # <<>> /\ Head(seq) = x THEN StripLeading(Tail(seq), x) ELSE seq

\* The c32 text of a byte string: the digits of the number in base 32 without
\* leading zero digits, behind one "0" for every leading zero byte.
c32Encode(bytes) ==
    LET bits == BitsOfBytes(bytes)
        padded == [i \in 1..((5 - (Len(bits) % 5)) % 5) |-> 0] \o bits
        digits == [n \in 1..(Len(padded) \div 5) |->
                      C32_ALPHABET[16 * padded[5 * n - 4] + 8 * padded[5 * n - 3]
                                   + 4 * padded[5 * n - 2] + 2 * padded[5 * n - 1]
                                   + padded[5 * n] + 1]]
        zeroBytes == Len(bytes) - Len(StripLeading(bytes, 0))
    IN  [i \in 1..zeroBytes |-> "0"] \o StripLeading(digits, "0")

\* "S", the c32 digit of the version, the c32 text of identity and checksum
ValidAddress(v) ==
    <<"S", C32_ALPHABET[v.version + 1]>> \o c32Encode(v.identity \o v.checksum)
ValidAddresses == {ValidAddress(v) : v \in ValidIdentities}

\* String.prototype.toLowerCase, one character at a time (ASCII letters)
toLowerCase(str) ==
    [i \in 1..Len(str) |->
        IF \E k \in 1..Len(UpperCase) : UpperCase[k] = str[i]
        THEN LowerCase[CHOOSE k \in 1..Len(UpperCase) : UpperCase[k] = str[i]]
        ELSE str[i]]

\* The shipped recipient behind other two-character prefixes, and the same
\* with a character that is not in the c32 alphabet at the end.
OtherPrefixAddresses ==
    LET body == SubSeq(STACKS_RECIPIENT, 3, Len(STACKS_RECIPIENT))
    IN  {prefix \o text :
            prefix \in {<<"S", "p">>, <<"s", "P">>, <<"T", "S">>, <<"S", "0">>, <<"X", "Y">>},
            text \in {body, SubSeq(body, 1, Len(body) - 1) \o <<"L">>}}

\* Every address given to the codec.
AddressInputs ==
    CodecAddresses \cup ValidAddresses \cup {toLowerCase(a) : a \in ValidAddresses}
        \cup OtherPrefixAddresses

\* The address with its last four characters, which lie in the checksum,
\* replaced.
ChecksumVariants(address) ==
    IF Len(address) < 6 THEN {}
    ELSE {SubSeq(address, 1, Len(address) - 4) \o tail :
            tail \in {<<"0", "0", "0", "0">>, <<"Z", "Z", "Z", "Z">>}} \ {address}

\* Byte strings of 0 to MaxBytesLen bytes: zero bytes, 255s, and 1, 2, 3, ...
ByteInputs ==
    UNION {{[i \in 1..n |-> 0], [i \in 1..n |-> 255], [i \in 1..n |-> i]} :
            n \in 0..MaxBytesLen}

\* new Uint8Array of the bytes a 0x hex string spells
hexToBytes(hex) ==
    LET digit(c) == (CHOOSE k \in 1..16 : HexAlphabet[k] = c) - 1
    IN  [n \in 1..((Len(hex) - 2) \div 2) |->
            16 * digit(hex[2 * n + 1]) + digit(hex[2 * n + 2])]

CodecIdle ==
    /\ kAddress = <<>>
    /\ kDecoded = <<>>
    /\ kEncoded = <<>>
    /\ kOther = <<>>
    /\ kEncodedOther = <<>>
    /\ kRecipient32 = <<>>
    /\ kBytes = <<>>
    /\ kPadded = <<>>
    /\ kRepadded = <<>>

\* const decoded = c32Decode(stacksAddress.slice(2))
codec_c32Decode ==
    /\ kAddress # <<>>
    /\ kDecoded = <<>>
    /\ kDecoded' = <<c32Decode(SubSeq(kAddress, 3, Len(kAddress)))>>
    /\ UNCHANGED <<kAddress, kEncoded, kOther, kEncodedOther, kRecipient32, kBytes, kPadded,
                   kRepadded>>
    /\ UNCHANGED <<clientVars, gatewayVars, bridgeVars, signerVars, verifierVars, demoVars>>

\* remoteRecipientCoder.encode(stacksAddress)
codec_encodeRecipient ==
    /\ kAddress # <<>>
    /\ kEncoded = <<>>
    /\ kEncoded' = <<encodeRecipient(kAddress)>>
    /\ UNCHANGED <<kAddress, kDecoded, kOther, kEncodedOther, kRecipient32, kBytes, kPadded,
                   kRepadded>>
    /\ UNCHANGED <<clientVars, gatewayVars, bridgeVars, signerVars, verifierVars, demoVars>>

\* remoteRecipientCoder.encode of a second address, which differs from the
\* first in its last characters only
codec_encodeOther ==
    /\ kAddress # <<>>
    /\ kEncoded # <<>>
    /\ kOther = <<>>
    /\ \E other \in ChecksumVariants(kAddress) :
          /\ kOther' = <<other>>
          /\ kEncodedOther' = <<encodeRecipient(other)>>
    /\ UNCHANGED <<kAddress, kDecoded, kEncoded, kRecipient32, kBytes, kPadded, kRepadded>>
    /\ UNCHANGED <<clientVars, gatewayVars, bridgeVars, signerVars, verifierVars, demoVars>>

\* encodeStacksAddress(stacksAddress)
codec_encodeStacksAddress ==
    /\ kAddress # <<>>
    /\ kRecipient32 = <<>>
    /\ kRecipient32' = <<encodeStacksAddress(kAddress)>>
    /\ UNCHANGED <<kAddress, kDecoded, kEncoded, kOther, kEncodedOther, kBytes, kPadded,
                   kRepadded>>
    /\ UNCHANGED <<clientVars, gatewayVars, bridgeVars, signerVars, verifierVars, demoVars>>

\* bytes32FromBytes(bytes)
codec_bytes32FromBytes ==
    /\ kBytes # <<>>
    /\ kPadded = <<>>
    /\ kPadded' = <<bytes32FromBytes(kBytes[1])>>
    /\ UNCHANGED <<kAddress, kDecoded, kEncoded, kOther, kEncodedOther, kRecipient32, kBytes,
                   kRepadded>>
    /\ UNCHANGED <<clientVars, gatewayVars, bridgeVars, signerVars, verifierVars, demoVars>>

\* bytes32FromBytes applied to the bytes of the value it returned
codec_bytes32FromBytesAgain ==
    /\ kPadded # <<>>
    /\ kPadded[1].ok
    /\ kRepadded = <<>>
    /\ kRepadded' = <<bytes32FromBytes(hexToBytes(kPadded[1].val))>>
    /\ UNCHANGED <<kAddress, kDecoded, kEncoded, kOther, kEncodedOther, kRecipient32, kBytes,
                   kPadded>>
    /\ UNCHANGED <<clientVars, gatewayVars, bridgeVars, signerVars, verifierVars, demoVars>>

(***************************************************************************)
(* payment-verifier.clar: verify-transfer-params                           *)
(***************************************************************************)

\* (define-constant ERR_... (err u...))
ERR_INVALID_AMOUNT == 1001
ERR_INVALID_RECIPIENT == 1002
ERR_INVALID_SENDER == 1003
ERR_AMOUNT_INSUFFICIENT == 1004

\* Clarity responses
ClarityOk(v) == [ok |-> TRUE, value |-> <<v>>]
ClarityErr(code) == [ok |-> FALSE, value |-> <<code>>]

\* Mutant: an amount equal to the required amount is refused.
verify_transfer_paramsStrictlyMore(sender, recipient, amount, required_amount, expected_recipient) ==
    IF ~(recipient = expected_recipient) THEN ClarityErr(ERR_INVALID_RECIPIENT)
    ELSE IF ~(amount > required_amount) THEN ClarityErr(ERR_AMOUNT_INSUFFICIENT)
    ELSE IF ~(~(sender = recipient)) THEN ClarityErr(ERR_INVALID_SENDER)
    ELSE ClarityOk(TRUE)

\* (define-read-only (verify-transfer-params ...)): the three asserts! in
\* their order, then (ok true)
verify_transfer_params(sender, recipient, amount, required_amount, expected_recipient) ==
    IF ~(recipient = expected_recipient) THEN ClarityErr(ERR_INVALID_RECIPIENT)
    ELSE IF ~(amount >= required_amount) THEN ClarityErr(ERR_AMOUNT_INSUFFICIENT)
    ELSE IF ~(~(sender = recipient)) THEN ClarityErr(ERR_INVALID_SENDER)
    ELSE ClarityOk(TRUE)

\* Principals and uint values given to the function
VerifierPrincipals ==
    {"ST1PQHQKV0RJXZFY1DGX8MNSNYVE3VGZJSRTPGZGM",
     "ST3Q6YCK0E2SDAA1KS7X546NY02F12D88RZHAH2P3",
     "ST2CY5V39NHDPWSXMW9QDT3HC3GD6Q6XX4CFRK9AG"}
VerifierAmounts == {0, 1, 99999, 100000, 100001}
VerifierCalls ==
    [sender : VerifierPrincipals, recipient : VerifierPrincipals,
     amount : VerifierAmounts, required_amount : VerifierAmounts,
     expected_recipient : VerifierPrincipals]

VerifierIdle ==
    /\ vCall = <<>>
    /\ vResult = <<>>

\* The function is evaluated on the arguments of the call.
verifier_call ==
    /\ vCall # <<>>
    /\ vResult = <<>>
    /\ vResult' = <<verify_transfer_params(vCall.sender, vCall.recipient, vCall.amount,
                                           vCall.required_amount,
                                           vCall.expected_recipient)>>
    /\ UNCHANGED vCall
    /\ UNCHANGED <<clientVars, gatewayVars, bridgeVars, signerVars, codecVars, demoVars>>

(***************************************************************************)
(* Demo page: the DemoRun component and executeDemoRun of api/demo         *)
(***************************************************************************)

\* Executions and resets the user starts on one visit of the page
MaxClicks == 3
\* Longest event list the backend answers with
MaxEvents == 2

\* DemoEvent: { text, type }
DemoEventTexts == <<"> step 1", "> step 2", "> step 3", "> step 4">>
DemoEventAt(i) == [text |-> <<DemoEventTexts[i]>>, type |-> "info"]
DemoEventList(n) == [i \in 1..n |-> DemoEventAt(i)]

\* A body that is no JSON text.
NotJsonBody ==
    [json |-> FALSE, status |-> "", txid |-> Undefined, events |-> Undefined,
     error |-> Undefined, detail |-> Undefined, message |-> Undefined]

\* Bodies of POST /demo/run: a run with 0 to MaxEvents events, with and
\* without a txid; a body that reports the lock in its status or in its
\* error; an error body without an event list, with and without a detail.
DemoRunBodies ==
    {[json |-> TRUE, status |-> "complete", txid |-> txid, events |-> Arr(DemoEventList(n)),
      error |-> Undefined, detail |-> Undefined, message |-> Undefined] :
        txid \in {Undefined, Str("0xabc")}, n \in 0..MaxEvents}
    \cup {[json |-> TRUE, status |-> "locked", txid |-> Undefined, events |-> Arr(<<>>),
           error |-> Undefined, detail |-> Undefined, message |-> Undefined],
          [json |-> TRUE, status |-> "error", txid |-> Undefined, events |-> Arr(<<>>),
           error |-> Str("Demo already in progress"), detail |-> Undefined,
           message |-> Undefined]}
    \cup {[json |-> TRUE, status |-> "error", txid |-> Undefined, events |-> Undefined,
           error |-> Undefined, detail |-> detail, message |-> Undefined] :
             detail \in {Undefined, Str("Payment failed")}}
    \cup {NotJsonBody}

\* Answers of POST /demo/run
DemoRunResponses ==
    {[status |-> 200, body |-> body] : body \in DemoRunBodies}
    \cup {[status |-> 423, body |-> NotJsonBody]}
    \cup {[status |-> 500, body |-> body] :
            body \in {b \in DemoRunBodies : b.events = Undefined}}

\* What executeDemoRun returns for a 423
LockedResult ==
    [json |-> TRUE, status |-> "locked", txid |-> Undefined,
     events |-> Arr(<<[text |-> <<"> Demo already in progress. Please wait...">>,
                      type |-> "info"]>>),
     error |-> Str("Demo already in progress"), detail |-> Undefined, message |-> Undefined]

\* executeDemoRun(), given the response of its fetch: the DemoRunResponse it
\* resolves with, or the error it rejects with
executeDemoRun(res) ==
    IF res.status = 423 THEN Ok(LockedResult)
    ELSE IF ~ok(res)
    THEN LET data == IF res.body.json THEN res.body
                     ELSE [detail |-> Undefined, message |-> Undefined]
         IN  IF Truthy(data.detail) THEN Err(data.detail.val[1])
             ELSE IF Truthy(data.message) THEN Err(data.message.val[1])
             ELSE Err("Demo run failed")
    ELSE IF ~res.body.json THEN Err("Unexpected token in JSON")
    ELSE Ok(res.body)

\* The timeouts handleExecute schedules for a result: one for every event, in
\* the order of their delays, the last one marked.
Timeouts(result) ==
    [i \in 1..Len(result.events.val) |->
        [event |-> result.events.val[i], index |-> i - 1,
         last |-> (i - 1 = Len(result.events.val) - 1), txid |-> result.txid]]

DemoIdle ==
    /\ dStatus = "idle"
    /\ dLogs = <<>>
    /\ dTxid = Undefined
    /\ dPending = 0
    /\ dResult = <<>>
    /\ dTimers = <<>>
    /\ dResets = 0
    /\ dClicks = 0

\* catch (error) { setLogs([...]); setStatus('idle') }
handleExecute_catch(message) ==
    /\ dLogs' = <<[id |-> 0, text |-> <<"> Error: ", message>>, type |-> "info"]>>
    /\ dStatus' = "idle"
    /\ UNCHANGED <<dTxid, dTimers>>

\* handleExecute after `await executeDemoRun()`: the locked branch, the
\* scheduling of one timeout per event, and the catch block (which also
\* catches the TypeError of result.events.forEach when events is missing).
handleExecute_resume(outcome) ==
    IF ~outcome.ok
    THEN handleExecute_catch(outcome.error)
    ELSE LET result == outcome.val
         IN  IF result.status = "locked" \/ result.error = Str("Demo already in progress")
             THEN /\ dLogs' = <<[id |-> 0,
                                 text |-> <<"> Demo already in progress. Please wait...">>,
                                 type |-> "info"]>>
                  /\ dStatus' = "idle"
                  /\ UNCHANGED <<dTxid, dTimers>>
             ELSE IF result.events.type # "array"
             THEN handleExecute_catch("TypeError")
             ELSE /\ dTimers' = Append(dTimers, Timeouts(result))
                  /\ UNCHANGED <<dStatus, dLogs, dTxid>>

\* The button is clicked (it is disabled unless status is idle, and the
\* handler returns at once when status is running): the page is cleared and
\* executeDemoRun is called.
demo_handleExecute ==
    /\ dStatus = "idle"
    /\ dClicks < MaxClicks
    /\ dClicks' = dClicks + 1
    /\ dStatus' = "running"
    /\ dLogs' = <<>>
    /\ dTxid' = Undefined
    /\ dPending' = dPending + 1
    /\ UNCHANGED <<dResult, dTimers, dResets>>
    /\ UNCHANGED <<clientVars, gatewayVars, bridgeVars, signerVars, codecVars, verifierVars>>

\* The fetch of executeDemoRun is answered and handleExecute goes on.
demo_executeDemoRunSettles ==
    /\ dPending > 0
    /\ dPending' = dPending - 1
    /\ \E res \in DemoRunResponses :
          /\ dResult' = <<executeDemoRun(res)>>
          /\ handleExecute_resume(executeDemoRun(res))
    /\ UNCHANGED <<dResets, dClicks>>
    /\ UNCHANGED <<clientVars, gatewayVars, bridgeVars, signerVars, codecVars, verifierVars>>

\* The fetch of executeDemoRun rejects (no connection).
demo_fetchRejects ==
    /\ dPending > 0
    /\ dPending' = dPending - 1
    /\ dResult' = <<Err("Failed to fetch")>>
    /\ handleExecute_resume(Err("Failed to fetch"))
    /\ UNCHANGED <<dResets, dClicks>>
    /\ UNCHANGED <<clientVars, gatewayVars, bridgeVars, signerVars, codecVars, verifierVars>>

\* The next timeout of one execution fires: its event is appended to the
\* log, and the last one sets status complete and the txid.
demo_timeout ==
    /\ \E r \in DOMAIN dTimers :
          /\ dTimers[r] # <<>>
          /\ LET t == Head(dTimers[r])
             IN  /\ dLogs' = Append(dLogs, [id |-> t.index, text |-> t.event.text,
                                            type |-> t.event.type])
                 /\ IF t.last
                    THEN /\ dStatus' = "complete"
                         /\ dTxid' = IF Truthy(t.txid) THEN t.txid ELSE dTxid
                    ELSE UNCHANGED <<dStatus, dTxid>>
          /\ dTimers' = [dTimers EXCEPT ![r] = Tail(dTimers[r])]
    /\ UNCHANGED <<dPending, dResult, dResets, dClicks>>
    /\ UNCHANGED <<clientVars, gatewayVars, bridgeVars, signerVars, codecVars, verifierVars>>

\* "Re-run Sequence" is clicked: handleReset calls resetDemo.
demo_handleReset ==
    /\ dClicks < MaxClicks
    /\ dClicks' = dClicks + 1
    /\ dResets' = dResets + 1
    /\ UNCHANGED <<dStatus, dLogs, dTxid, dPending, dResult, dTimers>>
    /\ UNCHANGED <<clientVars, gatewayVars, bridgeVars, signerVars, codecVars, verifierVars>>

\* resetDemo() settles (a rejection is logged and ignored): the page is reset.
demo_resetDemoSettles ==
    /\ dResets > 0
    /\ dResets' = dResets - 1
    /\ dStatus' = "idle"
    /\ dLogs' = <<>>
    /\ dTxid' = Undefined
    /\ UNCHANGED <<dPending, dResult, dTimers, dClicks>>
    /\ UNCHANGED <<clientVars, gatewayVars, bridgeVars, signerVars, codecVars, verifierVars>>

(***************************************************************************)
(* Specifications                                                          *)
(***************************************************************************)

\* One call of get(), against the gateway of the usage example or against a
\* resource that may answer anything.
ClientInit ==
    /\ cServer \in {"gateway", "any"}
    /\ cPc = "idle"
    /\ cUrl = <<>>
    /\ cOptions = <<>>
    /\ cRequests = <<>>
    /\ cResponse = <<>>
    /\ cDemoResponse = <<>>
    /\ cRetryResponse = <<>>
    /\ cResult = <<>>
    /\ gwEnv \in EnvValues
    /\ gwConfig = IF cServer = "gateway"
                  THEN <<[config |-> ExampleConfig, env |-> gwEnv]>> ELSE <<>>
    /\ gwTerms = IF cServer = "gateway" THEN <<requirePayment(ExampleConfig, gwEnv)>> ELSE <<>>
    /\ gwLog = <<>>
    /\ BridgeIdle
    /\ SignerIdle
    /\ CodecIdle
    /\ VerifierIdle
    /\ DemoIdle

ClientNext ==
    \/ get_fetch
    \/ get_response
    \/ get_demoResponse
    \/ get_demoResult
    \/ get_retryResponse
    \/ get_fetchRejects

SpecClient == ClientInit /\ [][ClientNext]_vars

\* The middleware serving a sequence of requests.
GatewayInit ==
    /\ gwEnv \in EnvValues
    /\ gwConfig = <<>>
    /\ gwTerms = <<>>
    /\ gwLog = <<>>
    /\ ClientIdle
    /\ BridgeIdle
    /\ SignerIdle
    /\ CodecIdle
    /\ VerifierIdle
    /\ DemoIdle

GatewayNext ==
    \/ gw_requirePayment
    \/ gw_handler
    \/ gw_setEnv

SpecGateway == GatewayInit /\ [][GatewayNext]_vars

\* One run of the deposit script.
BridgeInit ==
    /\ bPc = "start"
    /\ bKey \in PrivateKeys
    /\ bRecipient \in Recipients
    /\ bRemoteRecipient = <<>>
    /\ bEthBalance = <<>>
    /\ bUsdcBalance = <<>>
    /\ bTxs = <<>>
    /\ bApproval = "none"
    /\ bDeposit = "none"
    /\ bError = <<>>
    /\ bExit = <<>>
    /\ ClientIdle
    /\ GatewayIdle
    /\ SignerIdle
    /\ CodecIdle
    /\ VerifierIdle
    /\ DemoIdle

BridgeNext ==
    \/ main_start
    \/ main_getBalance
    \/ main_readContract
    \/ main_approveTxHash
    \/ main_approveReceipt
    \/ main_depositTxHash
    \/ main_depositReceipt
    \/ main_rejects
    \/ main_exit

\* The environment the flow is promised: every chain read answers and every
\* submitted transaction gets a receipt, so every await of main() settles
\* (by resolving, unless it rejects first) and the process then ends.
BridgeFairness ==
    /\ WF_vars(main_start)
    /\ WF_vars(main_getBalance)
    /\ WF_vars(main_readContract)
    /\ WF_vars(main_approveTxHash)
    /\ WF_vars(main_approveReceipt)
    /\ WF_vars(main_depositTxHash)
    /\ WF_vars(main_depositReceipt)
    /\ WF_vars(main_exit)

SpecBridgeFair == BridgeInit /\ [][BridgeNext]_vars /\ BridgeFairness

SpecBridge == BridgeInit /\ [][BridgeNext]_vars

\* One invocation of the signer.
SignerInit ==
    /\ sPc = "start"
    /\ sArgs \in ArgLists
    /\ sPrivateKey = <<>>
    /\ sSender = <<>>
    /\ sBuilt = <<>>
    /\ sBroadcasts = <<>>
    /\ sResponse = <<>>
    /\ sStdout = <<>>
    /\ sUncaught = <<>>
    /\ sExit = <<>>
    /\ ClientIdle
    /\ GatewayIdle
    /\ BridgeIdle
    /\ CodecIdle
    /\ VerifierIdle
    /\ DemoIdle

SignerNext ==
    \/ signer_main
    \/ signer_makeContractCall
    \/ signer_broadcastResponse
    \/ signer_rejects

SpecSigner == SignerInit /\ [][SignerNext]_vars

\* The codec applied to one address.
CodecInit ==
    /\ \/ kAddress \in AddressInputs /\ kBytes = <<>>
       \/ kAddress = <<>> /\ kBytes \in {<<bytes>> : bytes \in ByteInputs}
    /\ kDecoded = <<>>
    /\ kEncoded = <<>>
    /\ kOther = <<>>
    /\ kEncodedOther = <<>>
    /\ kRecipient32 = <<>>
    /\ kPadded = <<>>
    /\ kRepadded = <<>>
    /\ ClientIdle
    /\ GatewayIdle
    /\ BridgeIdle
    /\ SignerIdle
    /\ VerifierIdle
    /\ DemoIdle

CodecNext ==
    \/ codec_c32Decode
    \/ codec_encodeRecipient
    \/ codec_encodeOther
    \/ codec_encodeStacksAddress
    \/ codec_bytes32FromBytes
    \/ codec_bytes32FromBytesAgain

SpecCodec == CodecInit /\ [][CodecNext]_vars

\* One call of verify-transfer-params.
VerifierInit ==
    /\ vCall \in VerifierCalls
    /\ vResult = <<>>
    /\ ClientIdle
    /\ GatewayIdle
    /\ BridgeIdle
    /\ SignerIdle
    /\ CodecIdle
    /\ DemoIdle

VerifierNext == verifier_call

SpecVerifier == VerifierInit /\ [][VerifierNext]_vars

DemoInit ==
    /\ dStatus = "idle"
    /\ dLogs = <<>>
    /\ dTxid = Undefined
    /\ dPending = 0
    /\ dResult = <<>>
    /\ dTimers = <<>>
    /\ dResets = 0
    /\ dClicks = 0
    /\ ClientIdle
    /\ GatewayIdle
    /\ BridgeIdle
    /\ SignerIdle
    /\ CodecIdle
    /\ VerifierIdle

DemoNext ==
    \/ demo_handleExecute
    \/ demo_executeDemoRunSettles
    \/ demo_fetchRejects
    \/ demo_timeout
    \/ demo_handleReset
    \/ demo_resetDemoSettles

SpecDemo == DemoInit /\ [][DemoNext]_vars

\* What the browser guarantees the page: a fetch that does not reject is
\* answered, a scheduled timeout fires, and resetDemo settles.  Clicks are
\* up to the user.
DemoFairness ==
    /\ WF_vars(demo_executeDemoRunSettles)
    /\ WF_vars(demo_timeout)
    /\ WF_vars(demo_resetDemoSettles)

SpecDemoFair == DemoInit /\ [][DemoNext]_vars /\ DemoFairness

(***************************************************************************)
(* Properties of PaymentClient (SpecClient)                                *)
(***************************************************************************)

\* The requests get() has sent to the caller's url, and its calls of the
\* settlement trigger.
GatedRequestsSent == {i \in DOMAIN cRequests : cRequests[i].url = cUrl[1]}
TriggerCallsSent ==
    {i \in DOMAIN cRequests :
        /\ cRequests[i].url = [base |-> apiBaseUrl, path |-> "/demo/run"]
        /\ cRequests[i].method = Str("POST")}

Settled == cPc \in {"returned", "rejected"}
FirstWas402 == cResponse # <<>> /\ cResponse[1].status = 402
TriggerAnswered2xx ==
    cDemoResponse # <<>> /\ cDemoResponse[1].status \in 200..299

\* C1: against an endpoint protected by requirePayment, once the settlement
\* trigger has succeeded the retried request carries a non-empty
\* X-Payment-TxId header, the gateway forwards it, and get() returns the
\* route handler's response, not a second 402.
C1_RetryCarriesProof ==
    (cServer = "gateway" /\ FirstWas402 /\ TriggerAnswered2xx /\ Len(cRequests) = 3)
        => /\ Truthy(cRequests[3].headers.x_payment_txid)
           /\ cPc = "returned" =>
                 /\ gwLog[Len(gwLog)].effect.next = 1
                 /\ cResult[1].kind = "return"
                 /\ cResult[1].response[1].by = "handler"

\* C2: one call of get() sends at most two requests to the gated URL and
\* calls the settlement trigger at most once, whatever the answers are.
C2_AtMostTwoRequestsOneTrigger ==
    /\ Cardinality(GatedRequestsSent) <= 2
    /\ Cardinality(TriggerCallsSent) <= 1
    /\ Len(cRequests) = Cardinality(GatedRequestsSent) + Cardinality(TriggerCallsSent)

\* A call that used its whole budget: two gated requests around one trigger
\* call, ending with a second 402.
C2_Witness ==
    /\ cPc = "returned"
    /\ Cardinality(GatedRequestsSent) = 2
    /\ Cardinality(TriggerCallsSent) = 1
    /\ cRetryResponse # <<>> /\ cRetryResponse[1].status = 402

\* C3: when the first response is 402 and the settlement trigger answers
\* with a 2xx status, get() reissues the original request exactly once and
\* returns the second response whatever its status is.
C3_SuccessfulTriggerRetriesOnce ==
    (Settled /\ FirstWas402 /\ TriggerAnswered2xx)
        => /\ Cardinality(GatedRequestsSent) = 2
           /\ cRequests[3] = cRequests[1]
           /\ cRetryResponse # <<>> => cResult = <<Return(cRetryResponse[1])>>

\* C4: when the first response is 402 and the settlement trigger answers
\* with a status outside 2xx, get() rejects with an error and sends no second
\* request to the original URL.
C4_FailedTriggerRejectsWithoutRetry ==
    (FirstWas402 /\ cDemoResponse # <<>> /\ cDemoResponse[1].status \notin 200..299)
        => /\ cPc = "rejected"
           /\ cResult # <<>> /\ cResult[1].kind = "throw"
           /\ Cardinality(GatedRequestsSent) = 1
           /\ cRetryResponse = <<>>

\* The scenario of the specification: the trigger answers 500.
C4_Witness ==
    /\ FirstWas402
    /\ cDemoResponse # <<>> /\ cDemoResponse[1].status = 500
    /\ cPc = "rejected"
    /\ cResult = <<Throw("Payment failed")>>

\* C5: when the first response has a status other than 402, get() returns that
\* same response and neither calls the settlement trigger nor sends a second
\* request.
C5_Non402ReturnedUnchanged ==
    (cResponse # <<>> /\ cResponse[1].status # 402)
        => /\ cPc = "returned"
           /\ cResult = <<Return(cResponse[1])>>
           /\ Len(cRequests) = 1
           /\ TriggerCallsSent = {}
           /\ cDemoResponse = <<>> /\ cRetryResponse = <<>>

\* A first response that is an error but not 402 comes back as it is.
C5_Witness ==
    /\ cResponse # <<>> /\ cResponse[1].status = 401
    /\ cPc = "returned"
    /\ cResult = <<Return(cResponse[1])>>

(***************************************************************************)
(* Properties of PaymentGateway (SpecGateway)                              *)
(***************************************************************************)

\* The request carries an X-Payment-TxId that is not empty.
CarriesTxId(req) ==
    LET v == req.headers.x_payment_txid
    IN  \/ v.type = "string" /\ v.val # <<"">>
        \/ v.type = "array" /\ v.val # <<>>

\* The response object offers a way to set headers: setHeader, which
\* GatewayResponse requires, or set.
AcceptedResponse(res) == res.setHeader \/ res.set

\* The handler wrote nothing to res.
NothingWritten(effect) == effect.headers = {} /\ effect.status = <<>> /\ effect.body = <<>>

Gated == {i \in DOMAIN gwLog : gwLog[i].effect.status = <<402>>}

\* The payment terms as configured: the config's fields, the recipient
\* defaulting to the environment's wallet at the time requirePayment was
\* called (else ""), the network defaulting to "stacks-testnet".
ConfiguredAmount == gwConfig[1].config.amount
ConfiguredRecipient ==
    IF gwConfig[1].config.recipient # Undefined THEN gwConfig[1].config.recipient
    ELSE IF gwConfig[1].env \in {Undefined, Str("")} THEN Str("")
    ELSE gwConfig[1].env
ConfiguredNetwork ==
    IF gwConfig[1].config.network # Undefined THEN gwConfig[1].config.network
    ELSE Str("stacks-testnet")

\* The values a response carries for a header name.
HeaderValues(effect, name) == {h[2] : h \in {g \in effect.headers : g[1] = name}}

\* C6: every request that carries a non-empty X-Payment-TxId is forwarded:
\* next is called exactly once and no status, header or body is written,
\* whatever the header's value is; two such requests are treated alike even
\* when their proof values differ.
C6_ProofAlwaysForwarded ==
    /\ \A i \in DOMAIN gwLog :
          CarriesTxId(gwLog[i].req)
              => gwLog[i].effect.next = 1 /\ NothingWritten(gwLog[i].effect)
    /\ \A i, j \in DOMAIN gwLog :
          (CarriesTxId(gwLog[i].req) /\ CarriesTxId(gwLog[j].req))
              => gwLog[i].effect = gwLog[j].effect

\* Two requests with different proof values, one of them not a transaction
\* id at all, were both forwarded.
C6_Witness ==
    /\ Len(gwLog) = 2
    /\ gwLog[1].req.headers.x_payment_txid = Str("0xabc")
    /\ gwLog[2].req.headers.x_payment_txid = Str("not-a-txid")
    /\ gwLog[1].effect.next = 1 /\ gwLog[2].effect.next = 1

\* C7: every 402 written to an accepted response object carries the three
\* headers X-Payment-Amount, X-Payment-Recipient and X-Payment-Network, set
\* to the configured amount, recipient and network.
C7_402HasAllThreeHeaders ==
    \A i \in Gated :
        AcceptedResponse(gwLog[i].res)
            => /\ HeaderValues(gwLog[i].effect, "X-Payment-Amount") = {ConfiguredAmount}
               /\ HeaderValues(gwLog[i].effect, "X-Payment-Recipient") = {ConfiguredRecipient}
               /\ HeaderValues(gwLog[i].effect, "X-Payment-Network") = {ConfiguredNetwork}

\* A 402 written through set, on an object without setHeader, for a gateway
\* whose recipient came from the environment and whose network was configured.
C7_Witness ==
    \E i \in Gated :
        /\ ~gwLog[i].res.setHeader /\ gwLog[i].res.set
        /\ gwConfig[1].config.recipient = Undefined /\ Truthy(gwConfig[1].env)
        /\ gwConfig[1].config.network # Undefined
        /\ Cardinality(gwLog[i].effect.headers) = 3

\* C8: in every 402 response the body's payment.amount, payment.recipient
\* and payment.network equal the values of the X-Payment-Amount,
\* X-Payment-Recipient and X-Payment-Network headers of the same response,
\* and the body carries the currency label "USDCx".
C8_BodyMirrorsHeaders ==
    \A i \in Gated :
        LET effect == gwLog[i].effect
            payment == effect.body[1].payment
        IN  /\ Len(effect.body) = 1
            /\ payment.currency = "USDCx"
            /\ AcceptedResponse(gwLog[i].res)
                  => /\ HeaderValues(effect, "X-Payment-Amount") = {payment.amount}
                     /\ HeaderValues(effect, "X-Payment-Recipient") = {payment.recipient}
                     /\ HeaderValues(effect, "X-Payment-Network") = {payment.network}

\* A 402 for a gateway configured with a network of its own.
C8_Witness ==
    \E i \in Gated :
        /\ gwLog[i].res.setHeader
        /\ gwConfig[1].config.network = Str("stacks-mainnet")
        /\ gwLog[i].effect.body[1].payment.network = Str("stacks-mainnet")
        /\ <<"X-Payment-Network", Str("stacks-mainnet")>> \in gwLog[i].effect.headers

\* C9: the middleware keeps no state between requests: what it does with a
\* request depends only on whether the request carries proof (and on the
\* response object it writes to) and on the terms fixed when requirePayment
\* was called; a request without proof is gated even after earlier requests
\* were forwarded, and the terms it is told are those fixed at construction
\* even when the environment has changed since.
C9_NoStateBetweenRequests ==
    /\ \A i, j \in DOMAIN gwLog :
          (/\ Truthy(gwLog[i].req.headers.x_payment_txid)
                 = Truthy(gwLog[j].req.headers.x_payment_txid)
           /\ gwLog[i].res = gwLog[j].res)
              => gwLog[i].effect = gwLog[j].effect
    /\ \A j \in DOMAIN gwLog :
          ~Truthy(gwLog[j].req.headers.x_payment_txid)
              => /\ gwLog[j].effect.next = 0
                 /\ gwLog[j].effect.status = <<402>>
                 /\ gwLog[j].effect.body[1].payment.amount = ConfiguredAmount
                 /\ gwLog[j].effect.body[1].payment.recipient = ConfiguredRecipient
                 /\ gwLog[j].effect.body[1].payment.network = ConfiguredNetwork

\* A forwarded request followed by a request without proof, which is gated,
\* after the environment's wallet has changed.
C9_Witness ==
    /\ Len(gwLog) = 2
    /\ gwLog[1].effect.next = 1
    /\ gwLog[2].req.headers.x_payment_txid = Undefined
    /\ gwLog[2].effect.status = <<402>>
    /\ gwConfig[1].config.recipient = Undefined
    /\ gwEnv # gwConfig[1].env

(***************************************************************************)
(* Properties of BridgeDepositFlow (SpecBridge)                            *)
(***************************************************************************)

\* C10: when the balance read is lower than the requested deposit amount
\* (1.00 USDC, 1000000 base units), the flow fails and submits no
\* transaction at all, neither approve nor depositToRemote.
C10_InsufficientBalanceSubmitsNothing ==
    (bUsdcBalance # <<>> /\ bUsdcBalance[1] < 1000000)
        => /\ bPc = "failed"
           /\ bError = <<"Insufficient USDC">>
           /\ bTxs = <<>>
           /\ bApproval = "none" /\ bDeposit = "none"

\* The balance is one base unit short and the flow has failed.
C10_Witness ==
    /\ bUsdcBalance = <<999999>>
    /\ bPc = "failed"
    /\ bTxs = <<>>

\* The transactions of one kind submitted so far.
Submitted(functionName) == {i \in DOMAIN bTxs : bTxs[i].functionName = functionName}

\* C11: depositToRemote is submitted only after the approve transaction has
\* been submitted and the wait for its confirmation has completed with the
\* approval confirmed; it is never submitted while the approval is pending.
C11_DepositOnlyAfterApprovalConfirmed ==
    Submitted("depositToRemote") # {}
        => /\ Submitted("approve") = {1}
           /\ bApproval = "confirmed"

\* C12: a failure of the approve submission, of the approval's confirmation
\* (the approve transaction ending in state failed included), of the deposit
\* submission or of its confirmation moves the flow to Failed, and nothing
\* is submitted after that failure.
C12_FailureMovesToFailed ==
    /\ bApproval = "failed" => (bPc = "failed" /\ Submitted("depositToRemote") = {})
    /\ bDeposit = "failed" => bPc = "failed"
    /\ bError = <<"chain error">> => bPc = "failed"

\* C13: one run submits approve at most once and depositToRemote at most
\* once, whatever fails; nothing is retried.
C13_NoRetry ==
    /\ Cardinality(Submitted("approve")) <= 1
    /\ Cardinality(Submitted("depositToRemote")) <= 1
    /\ Len(bTxs) = Cardinality(Submitted("approve")) + Cardinality(Submitted("depositToRemote"))

\* The deposit submission was rejected and the process has ended: both
\* transactions were submitted once, no second attempt was made.
C13_Witness ==
    /\ bExit # <<>>
    /\ bPc = "failed"
    /\ bDeposit = "none"
    /\ bTxs = <<ApproveTx, DepositTx(encodeStacksAddress(bRecipient).val)>>

\* C14: every failure of the flow (missing key, insufficient balance, codec
\* error, failed submission or confirmation) ends the process with an
\* outcome a caller can tell from success, a non-zero exit code; no failure
\* is only logged.
C14_FailureExitsNonZero ==
    (bExit # <<>> /\ (bError # <<>> \/ bApproval = "failed" \/ bDeposit = "failed"))
        => bExit[1] # 0

(***************************************************************************)
(* Properties of SignerService (SpecSigner)                                *)
(***************************************************************************)

SignerExited == sExit # <<>>
BroadcastAccepted == sResponse # <<>> /\ ~Truthy(sResponse[1].error)
BroadcastRejected == sResponse # <<>> /\ Truthy(sResponse[1].error)

\* C15: for every argument list (fewer than three arguments and an amount
\* string that is no integer included) one invocation writes exactly one
\* line of JSON to standard output, and no error leaves main() uncaught.
C15_ExactlyOneJsonLine ==
    SignerExited => (Len(sStdout) = 1 /\ sUncaught = <<>>)

\* C16: the process exits with a non-zero code exactly when its output line
\* has success false: a rejected broadcast gives {success: false, error,
\* reason} and exit 1, a thrown error gives {success: false, error} and exit
\* 1, and a line with success true is the only line and is followed by exit 0.
C16_ExitCodeMatchesLine ==
    SignerExited
        => /\ sExit[1] # 0 <=> (Len(sStdout) = 1 /\ ~sStdout[1].success)
           /\ sExit[1] = 0 <=> (Len(sStdout) = 1 /\ sStdout[1].success)
           /\ BroadcastRejected
                => /\ sStdout = <<FailureLine(sResponse[1].error, sResponse[1].reason)>>
                   /\ sExit = <<1>>

\* C16 on the runs in which no error leaves main() uncaught.
C16_HoldsWhenNothingEscapes ==
    sUncaught = <<>> => C16_ExitCodeMatchesLine

\* C17: one invocation builds and broadcasts at most one transaction; after
\* a rejection or an error nothing is built, signed or broadcast again.
C17_AtMostOneBroadcast ==
    /\ Len(sBuilt) <= 1
    /\ Len(sBroadcasts) <= 1
    /\ Len(sBroadcasts) <= Len(sBuilt)
    /\ BroadcastRejected => (sPc = "exited" /\ Len(sBroadcasts) = 1)

\* The node rejected the only broadcast and the process has ended.
C17_Witness ==
    /\ BroadcastRejected
    /\ sExit = <<1>>
    /\ Len(sBroadcasts) = 1
    /\ sStdout[1].reason = Str("NotEnoughFunds")

\* C18: with fewer than three arguments the signer reports a usage error
\* ({success: false, error}) and exits non-zero before the private key is
\* read, normalised or used to derive an address, and without building or
\* broadcasting a transaction.
C18_UsageErrorBeforeKey ==
    (Len(sArgs) < 3 /\ sPc # "start")
        => /\ Len(sStdout) = 1
           /\ ~sStdout[1].success
           /\ Truthy(sStdout[1].error)
           /\ sExit # <<>> /\ sExit[1] # 0
           /\ sPrivateKey = <<>>
           /\ sSender = <<>>
           /\ sBuilt = <<>>
           /\ sBroadcasts = <<>>

\* Called with a key and a recipient but no amount.
C18_Witness ==
    /\ Len(sArgs) = 2
    /\ sArgs[1] = PrivateKey64
    /\ sPc = "exited"
    /\ sStdout = <<UsageLine>>

\* C19: when the broadcast is accepted the output line has success true, the
\* txid the broadcast returned, the sender derived from the key, the
\* recipient exactly as passed and the amount exactly as the input string.
C19_SuccessLineEchoesInputs ==
    BroadcastAccepted
        => /\ Len(sStdout) = 1
           /\ sStdout[1].success
           /\ sStdout[1].txid = sResponse[1].txid
           /\ Truthy(sStdout[1].txid)
           /\ sStdout[1].sender
                = Str([network |-> "testnet",
                       addressOf |-> IF Len(sArgs[1]) = 64 THEN sArgs[1] \o <<"0", "1">>
                                     ELSE sArgs[1]])
           /\ sStdout[1].recipient = Str(sArgs[2])
           /\ sStdout[1].amount = Str(sArgs[3])

\* A 64-digit key, a valid principal and the amount "100000".
C19_Witness ==
    /\ BroadcastAccepted
    /\ sArgs = <<PrivateKey64, "ST3Q6YCK0E2SDAA1KS7X546NY02F12D88RZHAH2P3",
                 <<"1", "0", "0", "0", "0", "0">>>>
    /\ sStdout[1].success
    /\ sStdout[1].amount = Str(<<"1", "0", "0", "0", "0", "0">>)
    /\ sExit = <<0>>

(***************************************************************************)
(* Properties of AddressCodec (SpecCodec)                                  *)
(***************************************************************************)

\* The prefix is one encodeRecipient accepts (ST or SP, in either case).
SupportedPrefix ==
    \E prefix \in {<<"S", "T">>, <<"S", "P">>} :
        \A i \in 1..2 :
            \/ kAddress[i] = prefix[i]
            \/ \E k \in DOMAIN UpperCase :
                  UpperCase[k] = prefix[i] /\ LowerCase[k] = kAddress[i]
\* The body is c32 text and its decoding is known.
BodyDecoded == kDecoded # <<>> /\ kDecoded[1].ok

\* C20: for every address with a supported prefix, encodeRecipient returns
\* exactly 21 bytes when the decoded body is exactly 24 bytes long, and
\* fails with the malformed-body error for every other decoded length, the
\* empty body included.
C20_TwentyOneBytesIff24 ==
    (kEncoded # <<>> /\ SupportedPrefix /\ BodyDecoded)
        => IF Len(kDecoded[1].val) = 24
           THEN kEncoded[1].ok /\ Len(kEncoded[1].val) = 21
           ELSE ~kEncoded[1].ok /\ kEncoded[1].error = "Invalid decoded length"

\* The shipped recipient: 39 characters of body decode to 24 bytes, and 21
\* bytes come back.
C20_Witness ==
    /\ kAddress = STACKS_RECIPIENT
    /\ BodyDecoded /\ Len(kDecoded[1].val) = 24
    /\ kEncoded # <<>> /\ kEncoded[1].ok /\ Len(kEncoded[1].val) = 21

\* The address of every valid identity.
ValidAddressOf == [v \in ValidIdentities |-> ValidAddress(v)]
\* The body of the address given.
Body == SubSeq(kAddress, 3, Len(kAddress))
\* The first two characters of the address are p, in either case.
PrefixIs(p) ==
    /\ Len(kAddress) >= 2
    /\ \A i \in 1..2 :
          \/ kAddress[i] = p[i]
          \/ \E k \in DOMAIN UpperCase : UpperCase[k] = p[i] /\ LowerCase[k] = kAddress[i]

\* C21: for every valid address of the prefixes ST and SP (the prefix, then
\* the c32 text of a 20-byte identity and its 4-byte checksum)
\* encodeRecipient succeeds and bytes 1..20 of its result are the identity,
\* also for identities whose leading bytes or bits are zero.
C21_RoundTripIdentity ==
    \A v \in ValidIdentities :
        (kAddress = ValidAddressOf[v] /\ kEncoded # <<>>)
            => /\ kEncoded[1].ok
               /\ SubSeq(kEncoded[1].val, 2, 21) = v.identity

\* C21 on the identities whose first byte is not zero.
C21_HoldsWithoutLeadingZeroByte ==
    \A v \in ValidIdentities :
        (kAddress = ValidAddressOf[v] /\ kEncoded # <<>> /\ v.identity[1] # 0)
            => /\ kEncoded[1].ok
               /\ SubSeq(kEncoded[1].val, 2, 21) = v.identity

\* C22: bytes32FromBytes rejects every input longer than 32 bytes and
\* returns a 32-byte value for every input of at most 32 bytes; applied
\* again to the bytes of its own output it returns the same value.
C22_Bytes32Idempotent ==
    kPadded # <<>>
        => /\ Len(kBytes[1]) > 32
                => (~kPadded[1].ok /\ kPadded[1].error = "Input too long")
           /\ Len(kBytes[1]) <= 32
                => /\ kPadded[1].ok
                   /\ Len(kPadded[1].val) = 66
                   /\ SubSeq(kPadded[1].val, 1, 2) = <<"0", "x">>
                   /\ Len(hexToBytes(kPadded[1].val)) = 32
           /\ kRepadded # <<>> => kRepadded[1] = kPadded[1]

\* 21 bytes were padded and the result was padded again.
C22_Witness ==
    /\ kBytes # <<>> /\ Len(kBytes[1]) = 21 /\ kBytes[1][1] = 1
    /\ kRepadded # <<>> /\ kRepadded[1].ok
    /\ kRepadded[1] = kPadded[1]

\* C23: for every address encodeStacksAddress accepts, the 32-byte result is
\* 11 zero bytes, the version byte, then the 20-byte identity; for
\* ST3Q6YCK0E2SDAA1KS7X546NY02F12D88RZHAH2P3 the byte at offset 11 is 0x1a.
C23_LeftPaddedVersionIdentity ==
    (kRecipient32 # <<>> /\ kRecipient32[1].ok)
        => LET bytes == hexToBytes(kRecipient32[1].val)
           IN  /\ Len(bytes) = 32
               /\ \A i \in 1..11 : bytes[i] = 0
               /\ bytes[12] = IF PrefixIs(<<"S", "T">>) THEN 26 ELSE 22
               /\ kDecoded # <<>> => SubSeq(bytes, 13, 32) = SubSeq(kDecoded[1].val, 1, 20)
               /\ \A v \in ValidIdentities :
                     kAddress = ValidAddressOf[v]
                        => bytes[12] = v.version /\ SubSeq(bytes, 13, 32) = v.identity
               /\ kAddress = STACKS_RECIPIENT
                    => kRecipient32[1].val
                         = <<"0", "x">> \o [i \in 1..22 |-> "0"] \o <<"1", "a">>
                             \o <<"e", "e", "6", "f", "3", "2", "6", "0", "7", "0",
                                  "b", "2", "d", "5", "2", "8", "3", "3", "c", "9",
                                  "f", "a", "5", "2", "1", "a", "b", "e", "0", "0",
                                  "9", "e", "1", "1", "3", "5", "0", "8", "c", "7">>

\* The shipped recipient encoded: the byte at offset 11 is 26.
C23_Witness ==
    /\ kAddress = STACKS_RECIPIENT
    /\ kDecoded # <<>>
    /\ kRecipient32 # <<>> /\ kRecipient32[1].ok
    /\ hexToBytes(kRecipient32[1].val)[12] = 26

\* C24 as stated: version byte 26 for the prefix ST, 22 for SP, and the
\* unknown-prefix error for every other two-character prefix, before the
\* body is decoded.
C24_ExactPrefix ==
    kEncoded # <<>>
        => LET prefix == SubSeq(kAddress, 1, 2)
           IN  /\ (prefix = <<"S", "T">> /\ kEncoded[1].ok) => kEncoded[1].val[1] = 26
               /\ (prefix = <<"S", "P">> /\ kEncoded[1].ok) => kEncoded[1].val[1] = 22
               /\ prefix \notin {<<"S", "T">>, <<"S", "P">>}
                    => /\ ~kEncoded[1].ok
                       /\ kEncoded[1].error = "Invalid Stacks address prefix"

\* C24, amended: version byte 26 for a prefix that reads ST in either case,
\* 22 for one that reads SP in either case, and the unknown-prefix error for
\* every other two-character prefix, before the body is decoded.
C24_PrefixInEitherCase ==
    kEncoded # <<>>
        => /\ (PrefixIs(<<"S", "T">>) /\ kEncoded[1].ok) => kEncoded[1].val[1] = 26
           /\ (PrefixIs(<<"S", "P">>) /\ kEncoded[1].ok) => kEncoded[1].val[1] = 22
           /\ (PrefixIs(<<"S", "T">>) \/ PrefixIs(<<"S", "P">>))
                => kEncoded[1].error # "Invalid Stacks address prefix"
           /\ (~PrefixIs(<<"S", "T">>) /\ ~PrefixIs(<<"S", "P">>))
                => /\ ~kEncoded[1].ok
                   /\ kEncoded[1].error = "Invalid Stacks address prefix"

\* The shipped recipient in lower case is encoded with version byte 26.
C24_Witness ==
    /\ kAddress = toLowerCase(STACKS_RECIPIENT)
    /\ kEncoded # <<>> /\ kEncoded[1].ok
    /\ kEncoded[1].val[1] = 26

\* The character is in the c32 alphabet, in either case.
InAlphabet(char) ==
    \E k \in DOMAIN C32_ALPHABET :
        \/ C32_ALPHABET[k] = char
        \/ \E j \in DOMAIN UpperCase :
              UpperCase[j] = C32_ALPHABET[k] /\ LowerCase[j] = char

\* C25: c32Decode fails with the invalid-character error whenever a
\* character of the input, upper-cased, is outside the alphabet
\* 0123456789ABCDEFGHJKMNPQRSTVWXYZ, and an input and its lower-cased form
\* decode to the same bytes.
C25_InvalidCharacterEitherCase ==
    kDecoded # <<>>
        => /\ (\E i \in DOMAIN Body : ~InAlphabet(Body[i]))
                => (~kDecoded[1].ok /\ kDecoded[1].error = "Invalid c32 character")
           /\ c32Decode(toLowerCase(Body)) = kDecoded[1]
           /\ c32Decode(toUpperCase(Body)) = kDecoded[1]

\* A body that begins with L is refused.
C25_Witness ==
    /\ kAddress # <<>> /\ Len(Body) = 39 /\ Body[1] = "L"
    /\ kDecoded # <<>> /\ ~kDecoded[1].ok
    /\ kDecoded[1].error = "Invalid c32 character"

\* C26: the checksum is never validated: two addresses with the same prefix
\* whose decoded 24-byte bodies agree on the first 20 bytes and differ in
\* the last 4 only are both accepted and give the same 21 bytes.
C26_ChecksumIgnored ==
    kEncodedOther # <<>>
        => LET first == c32Decode(Body)
               second == c32Decode(SubSeq(kOther[1], 3, Len(kOther[1])))
           IN  (/\ SubSeq(kOther[1], 1, 2) = SubSeq(kAddress, 1, 2)
                /\ PrefixIs(<<"S", "T">>) \/ PrefixIs(<<"S", "P">>)
                /\ first.ok /\ second.ok
                /\ Len(first.val) = 24 /\ Len(second.val) = 24
                /\ SubSeq(first.val, 1, 20) = SubSeq(second.val, 1, 20))
                    => /\ kEncoded[1].ok
                       /\ kEncodedOther[1].ok
                       /\ Len(kEncoded[1].val) = 21
                       /\ kEncodedOther[1] = kEncoded[1]

\* The shipped recipient and the same address with another checksum.
C26_Witness ==
    /\ kAddress = STACKS_RECIPIENT
    /\ kOther # <<>> /\ kOther[1] # kAddress
    /\ SubSeq(kOther[1], 38, 41) = <<"0", "0", "0", "0">>
    /\ kEncodedOther[1].ok
    /\ kEncodedOther[1] = kEncoded[1]

(***************************************************************************)
(* Properties of the payment verifier (SpecVerifier)                       *)
(***************************************************************************)

\* C27: verify-transfer-params returns (ok true) exactly when recipient
\* equals expected-recipient, amount is at least required-amount and sender
\* differs from recipient; in every other case it returns an error.
C27_OkIffAllThree ==
    vResult # <<>>
        => /\ vResult[1].ok
                <=> /\ vCall.recipient = vCall.expected_recipient
                    /\ vCall.amount >= vCall.required_amount
                    /\ vCall.sender # vCall.recipient
           /\ vResult[1].ok => vResult[1].value = <<TRUE>>
           /\ ~vResult[1].ok => vResult[1].value[1] \in {1002, 1003, 1004}

\* The amount equals the required amount, and the call is accepted.
C27_Witness ==
    /\ vResult # <<>> /\ vResult[1] = [ok |-> TRUE, value |-> <<TRUE>>]
    /\ vCall.amount = 100000 /\ vCall.required_amount = 100000
    /\ vCall.sender # vCall.recipient

(***************************************************************************)
(* Further properties of PaymentClient (SpecClient)                        *)
(***************************************************************************)

\* The fetches that have been issued and have not settled yet.
InFlight ==
    Len(cRequests) - Len(cResponse) - Len(cDemoResponse) - Len(cRetryResponse)
        - (IF cResult # <<>> /\ cResult[1].error = "fetch failed" THEN 1 ELSE 0)

\* C28: within one call of get() the three network operations are strictly
\* sequential: the settlement trigger is called only after the first
\* response has arrived with status 402, the retry is sent only after the
\* trigger's response has arrived, and no two are in flight together.
C28_StrictlySequential ==
    /\ InFlight \in {0, 1}
    /\ Len(cRequests) >= 2
         => /\ cRequests[2] = TriggerRequest
            /\ cResponse # <<>> /\ cResponse[1].status = 402
    /\ Len(cRequests) >= 3
         => /\ cRequests[3].url = cUrl[1]
            /\ cDemoResponse # <<>>
    /\ cDemoResponse # <<>> => cResponse # <<>>
    /\ cRetryResponse # <<>> => cDemoResponse # <<>>

\* The retry is in flight: the first response and the trigger's have arrived.
C28_Witness ==
    /\ cPc = "retry"
    /\ Len(cRequests) = 3
    /\ cResponse # <<>> /\ cDemoResponse # <<>> /\ cRetryResponse = <<>>
    /\ InFlight = 1

\* C29: get() never returns the first 402 response: every completed call
\* returns the first response with a status other than 402, or returns the
\* response of the retry, or rejects with a single error.
C29_NeverReturnsFirst402 ==
    Settled
        => /\ Len(cResult) = 1
           /\ \/ /\ cResult[1].kind = "return"
                 /\ cRetryResponse = <<>>
                 /\ cResult[1].response = cResponse
                 /\ cResponse[1].status # 402
              \/ /\ cResult[1].kind = "return"
                 /\ cRetryResponse # <<>>
                 /\ cResult[1].response = cRetryResponse
              \/ /\ cResult[1].kind = "throw"
                 /\ cResult[1].response = <<>>
                 /\ cResult[1].error # ""

\* The first response was a 402, the settlement trigger answered 500, and
\* get() rejected.
C29_Witness ==
    /\ cPc = "rejected"
    /\ FirstWas402
    /\ cDemoResponse # <<>> /\ cDemoResponse[1].status = 500
    /\ cResult = <<Throw("Payment failed")>>

\* C30 as stated: the first request uses the caller's URL and every field of
\* the caller's options unchanged, a method given in the options included,
\* and the retry is identical to the first request.
C30_RequestVerbatim ==
    Len(cRequests) >= 1
        => /\ cRequests[1].url = cUrl[1]
           /\ cRequests[1].headers = cOptions[1].headers
           /\ cOptions[1].method # Undefined => cRequests[1].method = cOptions[1].method
           /\ Len(cRequests) >= 3 => cRequests[3] = cRequests[1]

\* C30, amended: the first request uses the caller's URL and every field of
\* the caller's options unchanged except the method, which is always GET
\* whatever the options say, and the retry is identical to the first request.
C30_VerbatimExceptMethod ==
    Len(cRequests) >= 1
        => /\ cRequests[1].url = cUrl[1]
           /\ cRequests[1].headers = cOptions[1].headers
           /\ cRequests[1].method = Str("GET")
           /\ Len(cRequests) >= 3 => cRequests[3] = cRequests[1]

\* The caller asked for POST with a proof header; both requests went out as
\* GET with that header.
C30_Witness ==
    /\ Len(cRequests) = 3
    /\ cOptions[1].method = Str("POST")
    /\ cOptions[1].headers.x_payment_txid = Str("0xabc")
    /\ cRequests[1].method = Str("GET")
    /\ cRequests[1].headers.x_payment_txid = Str("0xabc")
    /\ cRequests[3] = cRequests[1]

\* ---------------------------------------------------------------------------
\* Presence of the proof header
\* ---------------------------------------------------------------------------

\* The request has an X-Payment-TxId header, whatever its value (an empty
\* value included).
HeaderPresent(req) == req.headers.x_payment_txid # Undefined

\* C31: the handler answers 402 exactly when the X-Payment-TxId header is
\* absent; every request in which the header is present, an empty value
\* included, is forwarded with nothing written.
C31_GatedIffHeaderAbsent ==
    \A i \in DOMAIN gwLog :
        /\ gwLog[i].effect.status = <<402>> <=> ~HeaderPresent(gwLog[i].req)
        /\ HeaderPresent(gwLog[i].req)
              => gwLog[i].effect.next = 1 /\ NothingWritten(gwLog[i].effect)

\* What holds of the code: the handler gates exactly the requests whose
\* header value is falsy, the absent header and the empty value alike.
C31_HoldsForTruthyValue ==
    \A i \in DOMAIN gwLog :
        /\ gwLog[i].effect.status = <<402>> <=> ~Truthy(gwLog[i].req.headers.x_payment_txid)
        /\ Truthy(gwLog[i].req.headers.x_payment_txid)
              => gwLog[i].effect.next = 1 /\ NothingWritten(gwLog[i].effect)

(***************************************************************************)
(* Further properties of BridgeDepositFlow (SpecBridge, SpecBridgeFair)    *)
(***************************************************************************)

\* The deposit was submitted and then its submission was rejected, the wait
\* for its receipt was rejected, or its receipt reports the transaction failed.
DepositFailed ==
    /\ Submitted("depositToRemote") # {}
    /\ bDeposit = "failed" \/ bError = <<"chain error">>

\* No transaction revokes or reduces the allowance: the only approve
\* transaction is the first one, for the full amount.
NoRevocation ==
    \A i \in Submitted("approve") : i = 1 /\ bTxs[i] = ApproveTx

\* C32: when the approval confirms and the deposit submission or its
\* confirmation then fails, the flow ends in failure and the allowance stays
\* granted: no transaction that revokes or reduces it is submitted.
C32_FailsWithAllowanceGranted ==
    (bApproval = "confirmed" /\ DepositFailed)
        => /\ bPc = "failed"
           /\ NoRevocation
           /\ Len(bTxs) = 2

\* What holds of the code: the allowance is never revoked or reduced, in any
\* run, and a rejected deposit submission or a rejected wait ends the flow
\* in failure.
C32_HoldsAllowanceNeverRevoked ==
    /\ NoRevocation
    /\ (bApproval = "confirmed" /\ DepositFailed /\ bDeposit # "failed")
          => (bPc = "failed" /\ Len(bTxs) = 2)

\* C33: the flow reports the deposit as confirmed (it returns, state
\* Deposited) only after approve and depositToRemote have been submitted, in
\* that order, and both have been confirmed; the transaction it surfaces
\* last is the deposit transaction.
C33_DepositedOnlyAfterBothConfirmed ==
    bPc = "done"
        => /\ bTxs = <<ApproveTx, DepositTx(encodeStacksAddress(bRecipient).val)>>
           /\ bApproval = "confirmed"
           /\ bDeposit = "confirmed"

\* What holds of the code: the flow returns only after both transactions
\* were submitted in that order and a receipt was received for each, whatever
\* the receipts say.
C33_HoldsBothReceiptsReceived ==
    bPc = "done"
        => /\ bTxs = <<ApproveTx, DepositTx(encodeStacksAddress(bRecipient).val)>>
           /\ bApproval \in {"confirmed", "failed"}
           /\ bDeposit \in {"confirmed", "failed"}

\* C34: the amount the balance is compared with, the amount approved and the
\* value passed to depositToRemote are one number, and the approved spender
\* is the contract that receives the deposit call.
C34_OneAmountOneSpender ==
    /\ \A i \in Submitted("approve") :
          /\ bUsdcBalance # <<>>
          /\ bUsdcBalance[1] >= bTxs[i].args.amount
    /\ bError = <<"Insufficient USDC">> => bUsdcBalance[1] < ApproveTx.args.amount
    /\ \A i \in Submitted("approve"), j \in Submitted("depositToRemote") :
          /\ bTxs[j].args.value = bTxs[i].args.amount
          /\ bTxs[j].address = bTxs[i].args.spender

\* The balance equals the amount exactly and both transactions went out.
C34_Witness ==
    /\ bUsdcBalance = <<1000000>>
    /\ Len(bTxs) = 2
    /\ bTxs[1].args.amount = 1000000
    /\ bTxs[2].args.value = 1000000
    /\ bTxs[2].address = X_RESERVE_CONTRACT
    /\ bPc = "done"

\* The balance check passed: the flow has reached the encoding of the recipient.
BalanceSufficient == bUsdcBalance # <<>> /\ ~InsufficientUsdc(bUsdcBalance[1], value)

\* C35: the recipient is encoded before any transaction is submitted, so a
\* codec failure (unknown prefix, invalid character, malformed body) ends
\* the flow with the codec's error, zero transactions and no allowance.
C35_CodecFailureSubmitsNothing ==
    ~encodeStacksAddress(bRecipient).ok
        => /\ bTxs = <<>>
           /\ bApproval = "none"
           /\ bDeposit = "none"
           /\ BalanceSufficient
                => (bPc = "failed" /\ bError = <<encodeStacksAddress(bRecipient).error>>)

\* The balance was sufficient, the recipient has the unknown prefix SM, and
\* the process has ended without a transaction.
C35_Witness ==
    /\ BalanceSufficient
    /\ SubSeq(bRecipient, 1, 2) = <<"S", "M">>
    /\ ~encodeStacksAddress(bRecipient).ok
    /\ bPc = "failed"
    /\ bTxs = <<>>
    /\ bExit # <<>>

\* The flow has ended: main() returned (Deposited) or rejected (Failed).
BridgeEnded == bPc \in {"done", "failed"}

\* C36: when every chain read answers and every submitted transaction gets
\* its receipt, every run eventually ends in Deposited or Failed.
C36_EventuallyEnds == <>BridgeEnded

\* The flow has no timeout: a confirmation wait is left only by the receipt
\* or by a rejection of the wait, so without the receipt it lasts forever.
C36_WaitHasNoTimeout ==
    [][(bPc \in {"waitApproval", "waitDeposit"} /\ bPc' # bPc)
          => (main_approveReceipt \/ main_depositReceipt \/ main_rejects)]_vars

\* A run that went through both confirmation waits and ended.
C36_Witness ==
    /\ bPc = "done"
    /\ bApproval = "confirmed"
    /\ bDeposit = "confirmed"
    /\ bExit # <<>>

(***************************************************************************)
(* Further properties of AddressCodec (SpecCodec)                          *)
(***************************************************************************)

\* The base-32 value of a c32 text as its 5n binary digits, most significant
\* first: digit i of the text contributes bits 5i-4 .. 5i.
Base32Bits(str) ==
    LET upper == toUpperCase(str)
    IN  [i \in 1..(5 * Len(str)) |->
            (indexOf(upper[(i + 4) \div 5]) \div (2 ^ (4 - ((i - 1) % 5)))) % 2]

\* The top (5n mod 8) bits of the value of the body are all zero.
TopBitsZero ==
    \A i \in 1..((5 * Len(Body)) % 8) : Base32Bits(Body)[i] = 0

\* C37: c32Decode never drops a non-zero bit: its output, read as a
\* big-endian unsigned integer, is the base-32 value of its input, and for n
\* characters it has floor(5n/8) bytes when the top (5n mod 8) bits of the
\* value are all zero and ceil(5n/8) bytes otherwise.
C37_ValueAndLengthPreserved ==
    BodyDecoded
        => /\ StripLeading(BitsOfBytes(kDecoded[1].val), 0)
                = StripLeading(Base32Bits(Body), 0)
           /\ Len(kDecoded[1].val)
                = IF TopBitsZero THEN (5 * Len(Body)) \div 8
                  ELSE (5 * Len(Body) + 7) \div 8

\* A body of 38 characters (190 bits) that starts with 3 (00011): three
\* leading zero bits are trimmed, a one bit stops the trimming, and five
\* zero bits are put back: 24 bytes, the first of them 7.
C37_Witness ==
    /\ BodyDecoded
    /\ Len(Body) = 38
    /\ Body[1] = "3"
    /\ ~TopBitsZero
    /\ Len(kDecoded[1].val) = 24
    /\ kDecoded[1].val[1] = 7

(***************************************************************************)
(* Further properties of SignerService (SpecSigner)                        *)
(***************************************************************************)

\* The key argument as main() uses it after line 43.
NormalisedKey ==
    IF Len(sArgs[1]) = 64 THEN sArgs[1] \o <<"0", "1">> ELSE sArgs[1]

\* C38: the key normalisation appends 01 exactly when the key has 64
\* characters and leaves every other key unchanged, so normalising the
\* normalised key changes nothing; the sender address is derived from that
\* normalised key, the same key signs the transaction, and the sender
\* argument of the transfer call is the derived address.
C38_OneNormalisedKey ==
    /\ (sPrivateKey # <<>> /\ sUncaught = <<>>)
          => /\ sPrivateKey[1] = NormalisedKey
             /\ compressedKey(sPrivateKey[1]) = sPrivateKey[1]
    /\ sSender # <<>> => sSender[1].addressOf = NormalisedKey
    /\ \A i \in DOMAIN sBuilt :
          /\ sBuilt[i].senderKey = NormalisedKey
          /\ sBuilt[i].senderKey = sSender[1].addressOf
          /\ sBuilt[i].functionArgs[2] = [type |-> "principal", value |-> sSender[1]]
    /\ \A i \in DOMAIN sBroadcasts :
          sBroadcasts[i].transaction.senderKey = NormalisedKey

\* A key of 64 hex digits was given: the transaction that was broadcast is
\* signed with the key plus 01 and names the address of that key as sender.
C38_Witness ==
    /\ sArgs # <<>>
    /\ sArgs[1] = PrivateKey64
    /\ Len(sBroadcasts) = 1
    /\ sBroadcasts[1].transaction.senderKey = PrivateKey64 \o <<"0", "1">>
    /\ sBroadcasts[1].transaction.functionArgs[2].value.addressOf = PrivateKey64 \o <<"0", "1">>

\* A key that already ends in 01 was given and is used unchanged.
C38_AlreadyNormalised ==
    /\ sArgs # <<>>
    /\ sArgs[1] = PrivateKey64 \o <<"0", "1">>
    /\ Len(sBroadcasts) = 1
    /\ sBroadcasts[1].transaction.senderKey = sArgs[1]

(***************************************************************************)
(* Properties of the demo page (SpecDemo, SpecDemoFair)                    *)
(***************************************************************************)

\* Nothing is under way that could still change the page: no call of
\* executeDemoRun or resetDemo is unsettled and no timeout is scheduled.
DemoQuiet ==
    /\ dPending = 0
    /\ dResets = 0
    /\ \A r \in DOMAIN dTimers : dTimers[r] = <<>>

\* The last executeDemoRun resolved with a result that is not the locked
\* one and whose event list is empty.
ResolvedWithoutEvents ==
    /\ dResult # <<>>
    /\ dResult[1].ok
    /\ dResult[1].val.status # "locked"
    /\ dResult[1].val.error # Str("Demo already in progress")
    /\ dResult[1].val.events = Arr(<<>>)

\* C39: every execution started by handleExecute eventually leaves the
\* running state (status idle or complete) once executeDemoRun settles, for
\* every result of the backend: a locked (423) result, a thrown error and
\* a successful result with an empty event list included.
C39_EveryExecutionLeavesRunning ==
    (dStatus = "running") ~> (dStatus # "running")

\* The same as a condition on states: a page that shows running still has
\* something under way that will end it.
C39_RunningIsNeverQuiet ==
    dStatus = "running" => ~DemoQuiet

\* What holds of the code: the page stays in running with nothing under way
\* only after a successful result with an empty event list; after a locked
\* result, a rejection and a result with events it leaves running.
C39_HoldsUnlessNoEvents ==
    (dStatus = "running" /\ DemoQuiet) => ResolvedWithoutEvents

====
